---------------------------- MODULE Spec2Model ----------------------------
(***************************************************************************)
(* The strategy_factory workflow orchestrator of thesis-py:                *)
(*   examples/strategy_factory/engine.py      ExecutionEngine              *)
(*   examples/strategy_factory/routes/*.py    the request handlers         *)
(*   examples/strategy_factory/storage.py     the in-memory Store          *)
(*                                                                         *)
(* Every handler is a coroutine on one asyncio event loop: it runs without *)
(* interruption up to an await that really suspends, so one action of the  *)
(* model is one such uninterrupted segment.  execute_sql and               *)
(* execute_python contain no suspending await, so a Query or Script unit   *)
(* runs from start to finish inside the segment that starts it.            *)
(***************************************************************************)
EXTENDS Integers, Sequences, FiniteSets, TLC

\* ------------------------------------------------------------------ bounds
\* number of create-simulation requests served
MaxSims == 2

\* the simulation ids, in the order create_simulation hands them out
SimIds == 1..MaxSims

\* the execute requests served, in the order they begin
RunIds == {1, 2}

\* the blueprint ids
BlueprintIds == {1}

\* a blueprint id no Blueprint of the Store has
UnknownBlueprintIds == {0}

\* --------------------------------------------------------------- universe
\* Optional[...] = None
None == "<None>"

\* models.py ExecutableType
ExecutableType == {"sql", "python", "llm", "output"}

\* the executables the create/generate routes have put into the Store
ExecIds == {"q1", "q2", "p", "g", "r"}

TypeOf(id) ==
    CASE id \in {"q1", "q2"} -> "sql"
      [] id = "p" -> "python"
      [] id = "g" -> "llm"
      [] id = "r" -> "output"
      [] id = "x" -> "other"

\* an executable of a class that is none of the four variants; no route creates
\* one, it can only be handed to the Store and the engine directly
ForeignIds == {"x"}

\* the steps of a Blueprint built by hand around such an executable
ForeignSteps ==
    { << <<"g", "r", "x">> >>,
      << <<"q1", "x">>, <<"r">> >>,
      << <<"x", "q1">>, <<"r">> >> }

\* the text a script generator call can return (after .strip()): it may be empty
Scripts == {"", "s1", "s2"}

\* the value a generate-input request stores
InputValues == {"in"}

\* the executable and the simulation a generate-input request names
GenerateInputIds == {"r"}

GenerateInputSims == {1}

\* an input that is neither dict nor list, put on a Simulation directly
ScalarInputs == {"7"}

\* the message of a refine-input request
RefineMessages == {"more"}

\* ExecutionStatus
PENDING == "pending"
RUNNING == "running"
COMPLETED == "completed"
FAILED == "failed"

\* Simulation.error: Optional[str]; a set error keeps the parts of the message
NoError == [set |-> FALSE]

ErrorOf(id, cause) == [set |-> TRUE, exec_id |-> id, cause |-> cause]

EmptyMap == [x \in {} |-> x]

Put(m, k, v) == [x \in (DOMAIN m) \cup {k} |-> IF x = k THEN v ELSE m[x]]

Range(s) == {s[i] : i \in DOMAIN s}

\* the step lists create-blueprint requests carry
StepChoices ==
    { << <<"q1", "q2">>, <<"r">> >>,
      << <<"g", "r">> >>,
      << <<"q1">>, <<"p", "r">>, <<"p">> >> }

\* CreateBlueprintRequest: executable_ids (a list) and steps; "nx" is an id
\* that no executable of the Store has
BlueprintRequests ==
    { [executable_ids |-> <<"q1", "q2", "p", "g", "r">>, steps |-> st] : st \in StepChoices }
    \cup { [executable_ids |-> <<"q1", "r">>, steps |-> << <<"q1">>, <<"g">> >>],
           [executable_ids |-> <<"q1", "nx">>, steps |-> << <<"q1">>, <<"zz">> >>] }

\* UpdateStepsRequest
UpdateRequests ==
    { << <<"q1">>, <<>>, <<"g">>, <<"r">> >>,
      << <<"zz">> >> }

VARIABLES
    executables,   \* storage.executables: id -> executable
    blueprints,    \* storage.blueprints: sequence, the index is the id
    simulations,   \* storage.simulations: sequence, the index is the id
    runs,          \* the execute_simulation calls, in the order they began
    generated,     \* the number of scripts generate_python_executable has stored
    response       \* the last reply of a route that answers without running units

vars == <<executables, blueprints, simulations, runs, generated, response>>

\* ------------------------------------------------------------ data model
\* llm_executor.py 37: the placeholder of a user prompt template
Placeholder == "{input}"

\* models.py LLMExecutable.user_prompt_template, as a sequence of pieces of text
Templates ==
    { <<"ask">>, <<"ask", Placeholder>>, <<Placeholder, "ask">>,
      <<Placeholder, Placeholder>>, <<"ask", Placeholder, "ask">> }

\* models.py LLMExecutable.system_prompt
SystemPrompts == { <<"role">>, <<"role", Placeholder>> }

\* models.py SQLExecutable.query, PythonExecutable.script, and the two prompts
\* of an LLMExecutable: the text an executable holds
ContentOf(id) ==
    IF TypeOf(id) = "llm"
    THEN [system_prompt |-> <<"role">>, user_prompt_template |-> <<"ask", Placeholder>>]
    ELSE <<"text of", id>>

\* models.py OutputExecutable and the other variants
NewExecutable(id) ==
    [type |-> TypeOf(id), content |-> ContentOf(id), cached_script |-> None]

\* models.py Simulation defaults
NewSimulation(bid) ==
    [blueprint_id |-> bid, inputs |-> EmptyMap, chat_history |-> <<>>,
     status |-> PENDING, results |-> EmptyMap, error |-> NoError]

\* ids named by a list of steps
StepIds(steps) == UNION {Range(steps[i]) : i \in DOMAIN steps}

\* blueprints.py: the ids of steps that are not among the known ids
UnknownStepIds(steps, known) == StepIds(steps) \ known

\* the ids of the steps in the order the validation loops visit them
RECURSIVE Flat(_)
Flat(steps) == IF steps = <<>> THEN <<>> ELSE Head(steps) \o Flat(Tail(steps))

\* the first element of a list that is not among the known ids, None if all are
FirstNotIn(ids, known) ==
    LET bad == {i \in DOMAIN ids : ids[i] \notin known}
    IN  IF bad = {} THEN None
        ELSE ids[CHOOSE i \in bad : \A j \in bad : i <= j]

\* the responses of the routes
NoResponse == [status |-> None]

\* HTTPException(404, "Simulation not found")
SimulationNotFound == [status |-> "404", detail |-> "Simulation not found"]

\* an exception no handler catches: 500 Internal Server Error
ServerError == [status |-> "500"]

\* HTTPException(404, "Blueprint not found")
BlueprintNotFound == [status |-> "404", detail |-> "Blueprint not found"]

Ok == [status |-> "200"]

\* HTTPException(404, "Executable {exec_id} not found")
ExecutableNotFound(exec_id) == [status |-> "404", exec_id |-> exec_id]

\* faulty variant: the rejection does not say which id
UnknownExecutableAnonymous(exec_id) == [status |-> "400", exec_id |-> None]

\* HTTPException(400, "Step references unknown executable: {exec_id}")
UnknownExecutable(exec_id) == [status |-> "400", exec_id |-> exec_id]

\* faulty variant: the steps are taken as they are
validate_steps_never(steps, known) == Ok

\* blueprints.py 29-35 and 73-79: the validation of the steps
validate_steps(steps, known) ==
    IF UnknownStepIds(steps, known) = {}
    THEN Ok
    ELSE UnknownExecutable(FirstNotIn(Flat(steps), known))

\* blueprints.py 18-35: the validation of a create-blueprint request
validate_create(request, store) ==
    IF FirstNotIn(request.executable_ids, DOMAIN store) # None
    THEN ExecutableNotFound(FirstNotIn(request.executable_ids, DOMAIN store))
    ELSE validate_steps(request.steps, Range(request.executable_ids))

\* ------------------------------------------------------------- executors
\* executors/sql_executor.py: mock rows chosen by the query text, drawn with
\* random; `draw` stands for the draws of one call
execute_sql(query, input_data, draw) == [rows |-> query, draw |-> draw]

\* llm_executor.py 32-35: the string put in the place of the placeholder,
\* json.dumps of a dict or list and str of anything else
input_str(input_data) ==
    IF input_data.kind = "results" \/ input_data.value \in InputValues
    THEN <<"json.dumps", input_data.value>>
    ELSE <<"str", input_data.value>>

\* faulty variant: the placeholder is replaced when there is no input, too
user_prompt_always(user_prompt_template, input_data) ==
    [i \in DOMAIN user_prompt_template |->
        IF user_prompt_template[i] = Placeholder
        THEN IF input_data.kind = "none" THEN <<"str", None>> ELSE input_str(input_data)
        ELSE <<"text", user_prompt_template[i]>>]

\* llm_executor.py 30-39: str.replace puts the string at every occurrence of
\* the placeholder; without input the template is taken as it is
user_prompt(user_prompt_template, input_data) ==
    [i \in DOMAIN user_prompt_template |->
        IF user_prompt_template[i] = Placeholder /\ input_data.kind # "none"
        THEN input_str(input_data)
        ELSE <<"text", user_prompt_template[i]>>]

\* llm_executor.py 42-48: the messages of the model call
Messages(system_prompt, user_prompt_template, input_data) ==
    [set |-> TRUE,
     system |-> [i \in DOMAIN system_prompt |-> <<"text", system_prompt[i]>>],
     user |-> user_prompt(user_prompt_template, input_data)]

\* no model call has been made
NoMessages == [set |-> FALSE]

\* executors/python_executor.py: the constant mock result
execute_python(script, input_data) == [output |-> "print(\"Hello, World!\")"]

\* ----------------------------------------------------------------- engine
\* faulty variant: the accumulated results come before the recorded input
gather_results_first(sim_inputs, results, current_exec_id) ==
    IF results # EmptyMap
    THEN [kind |-> "results", value |-> results]
    ELSE IF current_exec_id \in DOMAIN sim_inputs
         THEN [kind |-> "simulation", value |-> sim_inputs[current_exec_id]]
         ELSE [kind |-> "none"]

\* faulty variant: an empty result mapping is handed over instead of no input
gather_inputs_never_absent(sim_inputs, results, current_exec_id) ==
    IF current_exec_id \in DOMAIN sim_inputs
    THEN [kind |-> "simulation", value |-> sim_inputs[current_exec_id]]
    ELSE [kind |-> "results", value |-> results]

\* engine.py _gather_inputs_from_previous_steps
gather_inputs_from_previous_steps(sim_inputs, results, current_exec_id) ==
    IF current_exec_id \in DOMAIN sim_inputs
    THEN [kind |-> "simulation", value |-> sim_inputs[current_exec_id]]
    ELSE IF results = EmptyMap
         THEN [kind |-> "none"]
         ELSE [kind |-> "results", value |-> results]

\* faulty variant: every run counts as deterministic
check_always_deterministic(results, execs) == TRUE

\* engine.py _check_if_inputs_deterministic
check_if_inputs_deterministic(results, execs) ==
    \A exec_id \in DOMAIN results : execs[exec_id].type # "llm"

\* Python truthiness of Optional[str]
Truthy(s) == s # None /\ s # ""

\* faulty variant: the cached script is never reused
UseCachedNever(cached_script, is_deterministic) == FALSE

\* faulty variant: a script on the node is reused whatever the run
UseCachedWhenPresent(cached_script, is_deterministic) == Truthy(cached_script)

\* engine.py 150: the cached script is reused
UseCached(cached_script, is_deterministic) ==
    Truthy(cached_script) /\ is_deterministic

\* faulty variant: the generated script is cached whatever the run
ShouldCacheAlways(is_deterministic) == TRUE

\* engine.py 170: the generated script is cached
ShouldCache(is_deterministic) == is_deterministic

\* a task created by _execute_step, not yet run
NewUnit(id) ==
    [id |-> id, st |-> "new", input |-> [kind |-> "none"],
     det |-> TRUE, gen |-> FALSE, script |-> None, persisted |-> FALSE,
     cause |-> None, messages |-> NoMessages]

\* faulty variant: the engine starts from the results the Simulation holds
NewRunKeepsResults(sid, sim, bp, n) ==
    [sim |-> sid, bp |-> sim.blueprint_id, steps |-> bp.steps,
     step |-> 0, phase |-> "init", units |-> <<>>, results |-> sim.results,
     outcome |-> None, error |-> NoError,
     prev_status |-> sim.status, events |-> {}, gen_calls |-> 0,
     cache0 |-> [id \in DOMAIN bp.executables |-> bp.executables[id].cached_script],
     solo |-> \A q \in 1..n : runs[q].phase = "ended"]

\* engine.py __init__ and the bookkeeping of one execute_simulation call
NewRun(sid, sim, bp, n) ==
    [sim |-> sid, bp |-> sim.blueprint_id, steps |-> bp.steps,
     step |-> 0, phase |-> "init", units |-> <<>>, results |-> EmptyMap,
     outcome |-> None, error |-> NoError,
     \* history
     prev_status |-> sim.status, events |-> {}, gen_calls |-> 0,
     cache0 |-> [id \in DOMAIN bp.executables |-> bp.executables[id].cached_script],
     solo |-> \A q \in 1..n : runs[q].phase = "ended"]

\* the event (step, position, kind) of a unit of a run; kind is start, ok or err
Event(run, k, kind) == <<run.step, k, kind>>

\* faulty variant: the result of a unit takes the place of the whole mapping
FinishOkAlone(run, k, result) ==
    [run EXCEPT !.units[k].st = "ok",
                !.results = Put(EmptyMap, run.units[k].id, result),
                !.events = @ \cup {Event(run, k, "ok")}]

\* faulty variant: the result is recorded inside a wrapper
FinishOkWrapped(run, k, result) ==
    [run EXCEPT !.units[k].st = "ok",
                !.results = Put(@, run.units[k].id, [value |-> result]),
                !.events = @ \cup {Event(run, k, "ok")}]

\* engine.py _execute_single 61-70, a unit that ends with a result
FinishOk(run, k, result) ==
    [run EXCEPT !.units[k].st = "ok",
                !.results = Put(@, run.units[k].id, result),
                !.events = @ \cup {Event(run, k, "ok")}]

\* a unit that ends with an exception, which gather collects (engine.py 44)
FinishErr(run, k, cause) ==
    [run EXCEPT !.units[k].st = "err",
                !.units[k].cause = cause,
                !.events = @ \cup {Event(run, k, "err")}]

\* faulty variant: a unit of no known type ends without result and without error
UnknownExecutableTypeSkipped(run, k) ==
    [run EXCEPT !.units[k].st = "ok",
                !.events = @ \cup {Event(run, k, "ok")}]

\* engine.py 186-187: no isinstance test matched
UnknownExecutableType(run, k) == FinishErr(run, k, "Unknown executable type")

\* engine.py _execute_single 61-67 with _execute_executable 132-166: the segment
\* of unit k up to its first suspending await (or to its end when it has none)
StartSingle(run, k, execs, sim_inputs, rid) ==
    LET exec_id == run.units[k].id
        input_data == gather_inputs_from_previous_steps(sim_inputs, run.results, exec_id)
        begun == [run EXCEPT !.units[k].input = input_data,
                             !.events = @ \cup {Event(run, k, "start")}]
    IN  IF exec_id \notin DOMAIN execs
        THEN FinishErr(begun, k, "KeyError")
        ELSE
        LET executable == execs[exec_id] IN
        CASE executable.type = "sql" ->
                FinishOk(begun, k,
                         execute_sql(executable.content, input_data, <<rid, run.step, k>>))
          [] executable.type = "python" ->
                FinishOk(begun, k, execute_python(executable.content, input_data))
          [] executable.type = "llm" ->
                [begun EXCEPT !.units[k].st = "wait_llm",
                              !.units[k].messages =
                                    Messages(executable.content.system_prompt,
                                             executable.content.user_prompt_template,
                                             input_data)]
          [] executable.type = "output" ->
                LET is_deterministic == check_if_inputs_deterministic(run.results, execs)
                IN  IF UseCached(executable.cached_script, is_deterministic)
                    THEN [begun EXCEPT !.units[k].st = "wait_out",
                                       !.units[k].det = is_deterministic,
                                       !.units[k].script = executable.cached_script]
                    ELSE [begun EXCEPT !.units[k].st = "wait_gen",
                                       !.units[k].det = is_deterministic,
                                       !.units[k].gen = TRUE,
                                       !.gen_calls = @ + 1]
          [] OTHER -> UnknownExecutableType(begun, k)

\* faulty variant: only the first task is started, the others wait for it
StartUnitsFirstOnly(run, k, execs, sim_inputs, rid) ==
    [StartSingle(run, k, execs, sim_inputs, rid) EXCEPT !.phase = "started"]

\* asyncio runs the first segments of the tasks gather created in list order,
\* back to back (engine.py 43-44)
RECURSIVE StartUnits(_, _, _, _, _)
StartUnits(run, k, execs, sim_inputs, rid) ==
    IF k > Len(run.units)
    THEN [run EXCEPT !.phase = "started"]
    ELSE StartUnits(StartSingle(run, k, execs, sim_inputs, rid), k + 1,
                    execs, sim_inputs, rid)

\* faulty variant: the join returns when the first task is done
GatherDoneAny(units) == \E k \in DOMAIN units : units[k].st \in {"ok", "err"}

\* faulty variant: gather without return_exceptions, which is over as soon as
\* one task has raised
GatherDoneFirstException(units) ==
    \/ \A k \in DOMAIN units : units[k].st \in {"ok", "err"}
    \/ \E k \in DOMAIN units : units[k].st = "err"

\* faulty variant: the join is over only when every task has returned a value
GatherDoneAllOk(units) == \A k \in DOMAIN units : units[k].st = "ok"

\* asyncio.gather(*tasks, return_exceptions=True) is done (engine.py 44)
GatherDone(units) == \A k \in DOMAIN units : units[k].st \in {"ok", "err"}

\* faulty variant: the collected exceptions are never looked at
FailedUnitsNone(units) == {}

\* engine.py 47-49: the positions whose result is an exception
FailedUnits(units) == {k \in DOMAIN units : units[k].st = "err"}

Min(S) == CHOOSE x \in S : \A y \in S : x <= y

\* faulty variant: the message does not say what the collaborator reported
StepErrorWithoutCause(units) ==
    ErrorOf(units[Min(FailedUnits(units))].id, None)

\* faulty variant: the error names the failed unit that is listed last
StepErrorLastListed(units) ==
    LET k == CHOOSE j \in FailedUnits(units) : \A i \in FailedUnits(units) : i <= j
    IN  ErrorOf(units[k].id, units[k].cause)

\* engine.py 47-49 with 33-34: the exception execute() raises
StepError(units) ==
    LET k == Min(FailedUnits(units))
    IN  ErrorOf(units[k].id, units[k].cause)

\* engine.py 27-29: the next step whose gather suspends (gather of no tasks is
\* already done); Len + 1 when the loop is over
RECURSIVE NextStep(_, _)
NextStep(steps, i) ==
    IF i <= Len(steps) /\ steps[i] = <<>> THEN NextStep(steps, i + 1) ELSE i

\* engine.py 43: one task per id of the step
Launch(run, i) ==
    [run EXCEPT !.step = i, !.phase = "launched",
                !.units = [k \in 1..Len(run.steps[i]) |-> NewUnit(run.steps[i][k])]]

\* faulty variant: the recorded inputs are dropped when a run begins
MarkRunningDropsInputs(sim) == [sim EXCEPT !.status = RUNNING, !.inputs = EmptyMap]

\* simulations.py 200-202
MarkRunning(sim) == [sim EXCEPT !.status = RUNNING]

\* faulty variant: the results execute() returned are dropped
OnCompletedDropsResults(sim, results) == [sim EXCEPT !.status = COMPLETED]

\* simulations.py 208-211
OnCompleted(sim, results) == [sim EXCEPT !.status = COMPLETED, !.results = results]

\* faulty variant: the except branch stores the error and leaves the status
OnFailedKeepsStatus(sim, error) == [sim EXCEPT !.error = error]

\* simulations.py 219-223
OnFailed(sim, error) == [sim EXCEPT !.status = FAILED, !.error = error]

\* the run after execute() returned or raised
Ended(run, outcome, error) ==
    [run EXCEPT !.phase = "ended", !.units = <<>>, !.outcome = outcome,
                !.error = error]

\* engine.py 27-31: the orchestrating task goes on from step i: it launches the
\* next step and suspends in gather, or leaves the loop and returns the results
Advance(run, i) ==
    LET j == NextStep(run.steps, i)
    IN  IF j > Len(run.steps)
        THEN Ended(run, COMPLETED, NoError)
        ELSE Launch(run, j)

\* simulations.py 205-225: what the handler stores when execute() has ended
AfterRun(sim, run) ==
    CASE run.outcome = COMPLETED -> OnCompleted(sim, run.results)
      [] run.outcome = FAILED -> OnFailed(sim, run.error)
      [] OTHER -> sim

\* ---------------------------------------------------------------- actions
Init ==
    /\ executables = [id \in ExecIds |-> NewExecutable(id)]
    /\ blueprints = <<>>
    /\ simulations = <<>>
    /\ runs = <<>>
    /\ generated = 0
    /\ response = NoResponse

\* blueprints.py create_blueprint
CreateBlueprint(request) ==
    /\ UNCHANGED <<runs, simulations, generated, executables>>
    /\ validate_create(request, executables) = Ok
            => Len(blueprints) < Cardinality(BlueprintIds)
    /\ response' = validate_create(request, executables)
    /\ IF validate_create(request, executables) = Ok
       THEN blueprints' = Append(blueprints,
                [executables |-> [id \in Range(request.executable_ids) |-> executables[id]],
                 steps |-> request.steps])
       ELSE UNCHANGED blueprints

\* faulty variant: the steps are stored before they are validated
StoreStepsUnchecked(bp, steps, reply) == [bp EXCEPT !.steps = steps]

\* blueprints.py 73-84: the steps are stored when the validation passed
StoreSteps(bp, steps, reply) ==
    IF reply = Ok THEN [bp EXCEPT !.steps = steps] ELSE bp

\* blueprints.py update_steps
UpdateSteps(bid, steps) ==
    /\ UNCHANGED <<runs, simulations, generated, executables>>
    /\ bid \in DOMAIN blueprints
    /\ response' = validate_steps(steps, DOMAIN blueprints[bid].executables)
    /\ blueprints' = [blueprints EXCEPT ![bid] =
            StoreSteps(@, steps, validate_steps(steps, DOMAIN blueprints[bid].executables))]

\* faulty variant: the Simulation is stored whether or not its Blueprint exists
AddSimulationUnchecked(sims, bid, bps) == Append(sims, NewSimulation(bid))

\* simulations.py 25-33: the Simulation is stored when its Blueprint exists
AddSimulation(sims, bid, bps) ==
    IF bid \in DOMAIN bps THEN Append(sims, NewSimulation(bid)) ELSE sims

\* simulations.py create_simulation
CreateSimulation(bid) ==
    /\ bid \in DOMAIN blueprints => Len(simulations) < MaxSims
    /\ simulations' = AddSimulation(simulations, bid, blueprints)
    /\ response' = IF bid \in DOMAIN blueprints THEN Ok ELSE BlueprintNotFound
    /\ UNCHANGED <<executables, blueprints, runs, generated>>

\* simulations.py generate_input 85-90, after the model call returned
GenerateInput(sid, exec_id, input_data) ==
    /\ sid \in DOMAIN simulations
    /\ simulations[sid].blueprint_id \in DOMAIN blueprints
    /\ exec_id \in DOMAIN blueprints[simulations[sid].blueprint_id].executables
    /\ simulations' = [simulations EXCEPT ![sid].inputs = Put(@, exec_id, input_data)]
    /\ UNCHANGED <<executables, blueprints, runs, generated, response>>

\* simulations.py refine_input 180-181: the turns of one refinement
ChatTurns(exec_id, message) ==
    <<[role |-> "user", content |-> <<exec_id, message>>],
      [role |-> "assistant", content |-> <<exec_id, "reply">>]>>

\* simulations.py refine_input. The assignment of the undeclared attribute
\* executable_chat_history (118-119) raises on a model object that rejects
\* undeclared attributes; where it is accepted the handler awaits the model and
\* then stores the parsed input (none when the reply is not JSON) and the turns
RefineInput(sid, exec_id, message, updated, raises) ==
    /\ sid \in DOMAIN simulations
    /\ simulations[sid].blueprint_id \in DOMAIN blueprints
    /\ exec_id \in DOMAIN blueprints[simulations[sid].blueprint_id].executables
    /\ IF raises
       THEN /\ response' = ServerError
            /\ UNCHANGED simulations
       ELSE /\ Len(simulations[sid].chat_history) < 2 * Cardinality(RefineMessages)
            /\ simulations' = [simulations EXCEPT
                    ![sid].inputs = IF updated = None THEN @ ELSE Put(@, exec_id, updated),
                    ![sid].chat_history = @ \o ChatTurns(exec_id, message)]
            /\ UNCHANGED response
    /\ UNCHANGED <<executables, blueprints, runs, generated>>

\* simulations.py execute_simulation 190-205 with engine.py 201-202, 27-29 (and
\* 31, simulations.py 208-211, when no step suspends)
ExecuteSimulation(sid) ==
    IF sid \notin DOMAIN simulations
    THEN /\ response' = SimulationNotFound
         /\ UNCHANGED <<executables, blueprints, simulations, runs, generated>>
    ELSE IF simulations[sid].blueprint_id \notin DOMAIN blueprints
    THEN /\ response' = BlueprintNotFound
         /\ UNCHANGED <<executables, blueprints, simulations, runs, generated>>
    ELSE /\ Len(runs) < Cardinality(RunIds)
         /\ LET sim == simulations[sid]
                run == Advance(NewRun(sid, sim, blueprints[sim.blueprint_id], Len(runs)), 1)
            IN  /\ runs' = Append(runs, run)
                /\ simulations' = [simulations EXCEPT ![sid] = AfterRun(MarkRunning(@), run)]
         /\ UNCHANGED <<executables, blueprints, generated, response>>

\* the tasks of the step a run launched run their first segments
StartStep(rid) ==
    /\ rid \in DOMAIN runs
    /\ runs[rid].phase = "launched"
    /\ LET run == runs[rid]
       IN  runs' = [runs EXCEPT ![rid] =
                StartUnits(run, 1, blueprints[run.bp].executables,
                           simulations[run.sim].inputs, rid)]
    /\ UNCHANGED <<executables, blueprints, simulations, generated, response>>

\* a suspended unit may resume once every task of the step has been started
Suspended(rid, k, st) ==
    /\ rid \in DOMAIN runs
    /\ runs[rid].phase = "started"
    /\ k \in DOMAIN runs[rid].units
    /\ runs[rid].units[k].st = st

\* executors/llm_executor.py 42-53 and engine.py 67-72: the model call returns
\* (ok) or raises
ResumeLLM(rid, k, ok) ==
    /\ Suspended(rid, k, "wait_llm")
    /\ runs' = [runs EXCEPT ![rid] =
            IF ok THEN FinishOk(@, k, [text |-> <<rid, @.step, k>>])
                  ELSE FinishErr(@, k, "LLM execution error")]
    /\ UNCHANGED <<executables, blueprints, simulations, generated, response>>

\* faulty variant: a script that is already on the node is kept (the first
\* writer wins)
PersistIfAbsent(bp, exec_id, script) ==
    IF bp.executables[exec_id].cached_script = None
    THEN [bp EXCEPT !.executables[exec_id].cached_script = script]
    ELSE bp

\* engine.py 170-174: the generated script is put on the node and the node is
\* saved in the Store
Persist(bp, exec_id, script) == [bp EXCEPT !.executables[exec_id].cached_script = script]

\* routes/executables.py generate_python_executable 128-152 returns a script
\* and engine.py 166-177 goes on to the call of execute_output
ResumeGenerate(rid, k, script) ==
    /\ Suspended(rid, k, "wait_gen")
    /\ LET run == runs[rid]
           unit == run.units[k]
       IN  /\ runs' = [runs EXCEPT ![rid].units[k].st = "wait_out",
                                   ![rid].units[k].script = script,
                                   ![rid].units[k].persisted = ShouldCache(unit.det)]
           /\ generated' = generated + 1
           /\ IF ShouldCache(unit.det)
              THEN /\ blueprints' = [blueprints EXCEPT ![run.bp] = Persist(@, unit.id, script)]
                   /\ executables' = [executables EXCEPT ![unit.id] =
                                         Persist(blueprints[run.bp], unit.id, script).executables[unit.id]]
              ELSE UNCHANGED <<blueprints, executables>>
    /\ UNCHANGED <<simulations, response>>

\* routes/executables.py generate_python_executable raises
FailGenerate(rid, k) ==
    /\ Suspended(rid, k, "wait_gen")
    /\ runs' = [runs EXCEPT ![rid] = FinishErr(@, k, "generator error")]
    /\ UNCHANGED <<executables, blueprints, simulations, generated, response>>

\* executors/output_executor.py: what executing a script returns, the rendering
execute_output(script, input_data) == "rendering"

\* faulty variant: the unit's result is what executing the script returned
RenderResultRendered(script, result) == result

\* engine.py 177-184: the unit's result is the script, not what executing it
\* returned
RenderResult(script, result) == script

\* execute_output returns or raises
ResumeOutput(rid, k, ok) ==
    /\ Suspended(rid, k, "wait_out")
    /\ runs' = [runs EXCEPT ![rid] =
            IF ok THEN FinishOk(@, k, RenderResult(@.units[k].script,
                            execute_output(@.units[k].script, @.units[k].input)))
                  ELSE FinishErr(@, k, "output error")]
    /\ UNCHANGED <<executables, blueprints, simulations, generated, response>>

\* engine.py 44-49, 27-34 and simulations.py 205-225: gather is done, the
\* orchestrating task resumes
JoinStep(rid) ==
    /\ rid \in DOMAIN runs
    /\ runs[rid].phase = "started"
    /\ GatherDone(runs[rid].units)
    /\ LET run == runs[rid]
           next == IF FailedUnits(run.units) # {}
                   THEN Ended(run, FAILED, StepError(run.units))
                   ELSE Advance(run, run.step + 1)
       IN  /\ runs' = [runs EXCEPT ![rid] = next]
           /\ simulations' = [simulations EXCEPT ![run.sim] = AfterRun(@, next)]
    /\ UNCHANGED <<executables, blueprints, generated, response>>

Next ==
    \/ \E request \in BlueprintRequests : blueprints = <<>> /\ CreateBlueprint(request)
    \/ \E bid \in BlueprintIds, steps \in UpdateRequests : UpdateSteps(bid, steps)
    \/ \E bid \in BlueprintIds : CreateSimulation(bid)
    \/ \E sid \in GenerateInputSims, exec_id \in GenerateInputIds, v \in InputValues :
            GenerateInput(sid, exec_id, v)
    \/ \E sid \in DOMAIN simulations : ExecuteSimulation(sid)
    \/ \E rid \in RunIds : StartStep(rid)
    \/ \E rid \in DOMAIN runs : \E k \in DOMAIN runs[rid].units, ok \in BOOLEAN :
            ResumeLLM(rid, k, ok)
    \/ \E rid \in DOMAIN runs : \E k \in DOMAIN runs[rid].units, script \in Scripts :
            ResumeGenerate(rid, k, script)
    \/ \E rid \in DOMAIN runs : \E k \in DOMAIN runs[rid].units : FailGenerate(rid, k)
    \/ \E rid \in DOMAIN runs : \E k \in DOMAIN runs[rid].units, ok \in BOOLEAN :
            ResumeOutput(rid, k, ok)
    \/ \E rid \in RunIds : JoinStep(rid)

Spec == Init /\ [][Next]_vars

\* The engine on a Blueprint that holds an executable of a foreign class: the
\* Store has been handed the executable and the Blueprint directly
\* (Storage.save_executable, Storage.save_blueprint), bypassing the routes.
InitForeign ==
    /\ executables = [id \in ExecIds \cup ForeignIds |-> NewExecutable(id)]
    /\ blueprints \in {<<[executables |-> [id \in ExecIds \cup ForeignIds |-> NewExecutable(id)],
                          steps |-> st]>> : st \in ForeignSteps}
    /\ simulations = <<>>
    /\ runs = <<>>
    /\ generated = 0
    /\ response = NoResponse

NextForeign ==
    \/ \E bid \in BlueprintIds : CreateSimulation(bid)
    \/ \E sid \in SimIds : ExecuteSimulation(sid)
    \/ \E rid \in RunIds : StartStep(rid)
    \/ \E rid \in DOMAIN runs : \E k \in DOMAIN runs[rid].units, ok \in BOOLEAN :
            ResumeLLM(rid, k, ok)
    \/ \E rid \in DOMAIN runs : \E k \in DOMAIN runs[rid].units, script \in Scripts :
            ResumeGenerate(rid, k, script)
    \/ \E rid \in DOMAIN runs : \E k \in DOMAIN runs[rid].units : FailGenerate(rid, k)
    \/ \E rid \in DOMAIN runs : \E k \in DOMAIN runs[rid].units, ok \in BOOLEAN :
            ResumeOutput(rid, k, ok)
    \/ \E rid \in RunIds : JoinStep(rid)

SpecForeign == InitForeign /\ [][NextForeign]_vars

\* the routes with the requests that are rejected at any time; the generator
\* returns one script
NextRejections ==
    \/ \E request \in BlueprintRequests : CreateBlueprint(request)
    \/ \E bid \in BlueprintIds, steps \in UpdateRequests : UpdateSteps(bid, steps)
    \/ \E bid \in BlueprintIds \cup UnknownBlueprintIds : CreateSimulation(bid)
    \/ \E sid \in SimIds : ExecuteSimulation(sid)
    \/ \E rid \in RunIds : StartStep(rid)
    \/ \E rid \in DOMAIN runs : \E k \in DOMAIN runs[rid].units, ok \in BOOLEAN :
            ResumeLLM(rid, k, ok)
    \/ \E rid \in DOMAIN runs : \E k \in DOMAIN runs[rid].units, script \in {"s1"} :
            ResumeGenerate(rid, k, script)
    \/ \E rid \in DOMAIN runs : \E k \in DOMAIN runs[rid].units : FailGenerate(rid, k)
    \/ \E rid \in DOMAIN runs : \E k \in DOMAIN runs[rid].units, ok \in BOOLEAN :
            ResumeOutput(rid, k, ok)
    \/ \E rid \in RunIds : JoinStep(rid)

\* Storage.save_simulation: the Store may hold a Simulation whose Blueprint it
\* does not hold
InitRejections ==
    /\ executables = [id \in ExecIds |-> NewExecutable(id)]
    /\ blueprints = <<>>
    /\ simulations \in {<<>>} \cup {<<NewSimulation(bid)>> : bid \in UnknownBlueprintIds}
    /\ runs = <<>>
    /\ generated = 0
    /\ response = NoResponse

SpecRejections == InitRejections /\ [][NextRejections]_vars

\* the routes that write a Simulation, on an accepted Blueprint; the generator
\* returns one script
NextInputs ==
    \/ \E request \in BlueprintRequests : blueprints = <<>> /\ CreateBlueprint(request)
    \/ \E bid \in BlueprintIds : CreateSimulation(bid)
    \/ \E sid \in GenerateInputSims, exec_id \in GenerateInputIds, v \in InputValues :
            GenerateInput(sid, exec_id, v)
    \/ \E sid \in GenerateInputSims, exec_id \in GenerateInputIds, message \in RefineMessages :
            \E updated \in InputValues \cup {None}, raises \in BOOLEAN :
                RefineInput(sid, exec_id, message, updated, raises)
    \/ \E sid \in DOMAIN simulations : ExecuteSimulation(sid)
    \/ \E rid \in RunIds : StartStep(rid)
    \/ \E rid \in DOMAIN runs : \E k \in DOMAIN runs[rid].units, ok \in BOOLEAN :
            ResumeLLM(rid, k, ok)
    \/ \E rid \in DOMAIN runs : \E k \in DOMAIN runs[rid].units, script \in {"s1"} :
            ResumeGenerate(rid, k, script)
    \/ \E rid \in DOMAIN runs : \E k \in DOMAIN runs[rid].units : FailGenerate(rid, k)
    \/ \E rid \in DOMAIN runs : \E k \in DOMAIN runs[rid].units, ok \in BOOLEAN :
            ResumeOutput(rid, k, ok)
    \/ \E rid \in RunIds : JoinStep(rid)

SpecInputs == Init /\ [][NextInputs]_vars

\* the steps of the Blueprints whose Generative unit is run on drawn prompts
PromptSteps == { <<<<"g">>>>, <<<<"q1">>, <<"g">>>>, <<<<"g", "q1">>, <<"g">>>> }

\* the inputs a Simulation holds for the Generative unit
PromptInputs ==
    {EmptyMap} \cup {Put(EmptyMap, "g", v) : v \in InputValues \cup ScalarInputs}

\* the executables with the prompts of the Generative one drawn
PromptExecutables(system_prompt, user_prompt_template) ==
    [id \in ExecIds |->
        IF TypeOf(id) = "llm"
        THEN [NewExecutable(id) EXCEPT
                !.content = [system_prompt |-> system_prompt,
                             user_prompt_template |-> user_prompt_template]]
        ELSE NewExecutable(id)]

\* a stored Blueprint and Simulation with drawn prompts and a drawn input
InitPrompt ==
    /\ \E system_prompt \in SystemPrompts, user_prompt_template \in Templates :
        \E st \in PromptSteps :
            /\ executables = PromptExecutables(system_prompt, user_prompt_template)
            /\ blueprints = <<[executables |->
                                    PromptExecutables(system_prompt, user_prompt_template),
                               steps |-> st]>>
    /\ simulations \in {<<[NewSimulation(1) EXCEPT !.inputs = inp]>> : inp \in PromptInputs}
    /\ runs = <<>>
    /\ generated = 0
    /\ response = NoResponse

\* HTTPException(400, "Simulation is not completed. Current status: ...")
NotCompleted(status) == [status |-> "400", current |-> status]

\* faulty variant: the results are returned whatever the status
ResultsReplyAny(sim) == [status |-> "200", body |-> sim.results]

\* simulations.py 244-250: the reply of get-results for a stored Simulation
ResultsReply(sim) ==
    IF sim.status # COMPLETED
    THEN NotCompleted(sim.status)
    ELSE [status |-> "200", body |-> sim.results]

\* simulations.py 237-250 get_simulation_results
GetResults(sid) ==
    /\ UNCHANGED <<executables, blueprints, simulations, runs, generated>>
    /\ response' = IF sid \notin DOMAIN simulations
                   THEN SimulationNotFound
                   ELSE ResultsReply(simulations[sid])

\* a stored Blueprint and one Simulation of it
InitResults ==
    /\ executables = [id \in ExecIds |-> NewExecutable(id)]
    /\ blueprints \in {<<[executables |-> [id \in ExecIds |-> NewExecutable(id)],
                          steps |-> st]>> : st \in StepChoices}
    /\ simulations = <<NewSimulation(1)>>
    /\ runs = <<>>
    /\ generated = 0
    /\ response = NoResponse

NextResults ==
    \/ \E bid \in BlueprintIds, steps \in UpdateRequests : UpdateSteps(bid, steps)
    \/ \E sid \in DOMAIN simulations : ExecuteSimulation(sid)
    \/ \E sid \in SimIds : GetResults(sid)
    \/ \E rid \in RunIds : StartStep(rid)
    \/ \E rid \in DOMAIN runs : \E k \in DOMAIN runs[rid].units, ok \in BOOLEAN :
            ResumeLLM(rid, k, ok)
    \/ \E rid \in DOMAIN runs : \E k \in DOMAIN runs[rid].units, script \in {"s1"} :
            ResumeGenerate(rid, k, script)
    \/ \E rid \in DOMAIN runs : \E k \in DOMAIN runs[rid].units : FailGenerate(rid, k)
    \/ \E rid \in DOMAIN runs : \E k \in DOMAIN runs[rid].units, ok \in BOOLEAN :
            ResumeOutput(rid, k, ok)
    \/ \E rid \in RunIds : JoinStep(rid)

SpecResults == InitResults /\ [][NextResults]_vars

\* the positions a unit can have in a step
UnitPositions == UNION {UNION {DOMAIN st[i] : i \in DOMAIN st} : st \in StepChoices}

NextLive ==
    \/ \E sid \in DOMAIN simulations : ExecuteSimulation(sid)
    \/ \E rid \in RunIds : StartStep(rid)
    \/ \E rid \in DOMAIN runs : \E k \in DOMAIN runs[rid].units, ok \in BOOLEAN :
            ResumeLLM(rid, k, ok)
    \/ \E rid \in DOMAIN runs : \E k \in DOMAIN runs[rid].units, script \in {"s1"} :
            ResumeGenerate(rid, k, script)
    \/ \E rid \in DOMAIN runs : \E k \in DOMAIN runs[rid].units : FailGenerate(rid, k)
    \/ \E rid \in DOMAIN runs : \E k \in DOMAIN runs[rid].units, ok \in BOOLEAN :
            ResumeOutput(rid, k, ok)
    \/ \E rid \in RunIds : JoinStep(rid)

\* the event loop runs a task that is ready (the orchestrating task after
\* its launch and after gather is done), and every call of an executor or of
\* the generator returns or raises in the end
Fairness ==
    /\ \A rid \in RunIds : WF_vars(StartStep(rid)) /\ WF_vars(JoinStep(rid))
    /\ \A rid \in RunIds : \A k \in UnitPositions :
            /\ WF_vars(\E ok \in BOOLEAN : ResumeLLM(rid, k, ok))
            /\ WF_vars((\E script \in {"s1"} : ResumeGenerate(rid, k, script))
                            \/ FailGenerate(rid, k))
            /\ WF_vars(\E ok \in BOOLEAN : ResumeOutput(rid, k, ok))

SpecLive == InitResults /\ [][NextLive]_vars /\ Fairness

\* the steps that take the place of those of a Blueprint whose Render node
\* may hold a script: the Render node after a Query node, after a Generative
\* node, or alone
ReplacedSteps == { << <<"q2">>, <<"r">> >>, << <<"g">>, <<"r">> >>, << <<"r">> >> }

\* a stored Blueprint and two Simulations of it
InitReuse ==
    /\ executables = [id \in ExecIds |-> NewExecutable(id)]
    /\ blueprints \in {<<[executables |-> [id \in ExecIds |-> NewExecutable(id)],
                          steps |-> st]>> : st \in StepChoices}
    /\ simulations = <<NewSimulation(1), NewSimulation(1)>>
    /\ runs = <<>>
    /\ generated = 0
    /\ response = NoResponse

NextReuse ==
    \/ \E bid \in BlueprintIds, steps \in ReplacedSteps : UpdateSteps(bid, steps)
    \/ \E sid \in GenerateInputSims, exec_id \in GenerateInputIds, v \in InputValues :
            GenerateInput(sid, exec_id, v)
    \/ \E sid \in DOMAIN simulations : ExecuteSimulation(sid)
    \/ \E rid \in RunIds : StartStep(rid)
    \/ \E rid \in DOMAIN runs : \E k \in DOMAIN runs[rid].units, ok \in BOOLEAN :
            ResumeLLM(rid, k, ok)
    \/ \E rid \in DOMAIN runs : \E k \in DOMAIN runs[rid].units, script \in {"", "s1"} :
            ResumeGenerate(rid, k, script)
    \/ \E rid \in DOMAIN runs : \E k \in DOMAIN runs[rid].units : FailGenerate(rid, k)
    \/ \E rid \in DOMAIN runs : \E k \in DOMAIN runs[rid].units, ok \in BOOLEAN :
            ResumeOutput(rid, k, ok)
    \/ \E rid \in RunIds : JoinStep(rid)

SpecReuse == InitReuse /\ [][NextReuse]_vars

NextPrompt ==
    \/ \E sid \in DOMAIN simulations : ExecuteSimulation(sid)
    \/ \E rid \in RunIds : StartStep(rid)
    \/ \E rid \in DOMAIN runs : \E k \in DOMAIN runs[rid].units, ok \in BOOLEAN :
            ResumeLLM(rid, k, ok)
    \/ \E rid \in RunIds : JoinStep(rid)

SpecPrompt == InitPrompt /\ [][NextPrompt]_vars

\* ------------------------------------------------------------ properties
\* the units (step, position) a run has started, and those that have finished
Started(run) == {<<e[1], e[2]>> : e \in {x \in run.events : x[3] = "start"}}

Finished(run) == {<<e[1], e[2]>> : e \in {x \in run.events : x[3] \in {"ok", "err"}}}

InFlight(run) == Started(run) \ Finished(run)

StepUnits(run, i) == {<<i, k>> : k \in DOMAIN run.steps[i]}

\* execute() of run rid returns or raises in this step
EndsNow(rid) ==
    /\ rid \in DOMAIN runs'
    /\ runs'[rid].phase = "ended"
    /\ rid \in DOMAIN runs => runs[rid].phase # "ended"

\* every unit of every step of the run has finished with a result
AllOk(run) ==
    \A i \in DOMAIN run.steps : \A k \in DOMAIN run.steps[i] : <<i, k, "ok">> \in run.events

\* C1: within one execute() call a unit of a step is started only when every
\* unit of every earlier step has finished, and the units in flight at any
\* moment all belong to one step.
C1_StepBarrier ==
    \A rid \in DOMAIN runs :
        LET run == runs[rid]
        IN  /\ \A u \in Started(run) : \A i \in 1..(u[1] - 1) :
                    StepUnits(run, i) \subseteq Finished(run)
            /\ \A u \in InFlight(run), v \in InFlight(run) : u[1] = v[1]

\* a unit of a later step is in flight after a step of two units
C1_Witness ==
    \E rid \in DOMAIN runs :
        \E u \in InFlight(runs[rid]) :
            /\ u[1] >= 2
            /\ Len(runs[rid].steps[u[1] - 1]) = 2

\* C7: once a unit of step i has failed, no unit of a later step is ever
\* started in that run, and when execute() has ended it has ended with one
\* failure, which names a failed unit of step i.
C7_FailFast ==
    \A rid \in DOMAIN runs :
        LET run == runs[rid]
        IN  \A e \in run.events :
                e[3] = "err" =>
                    /\ \A s \in Started(run) : s[1] <= e[1]
                    /\ run.phase = "ended" =>
                            /\ run.outcome = FAILED
                            /\ run.error.set
                            /\ \E f \in run.events :
                                    /\ f[3] = "err"
                                    /\ f[1] = e[1]
                                    /\ run.steps[f[1]][f[2]] = run.error.exec_id

\* a run has ended by a failure in a step that is not its last
C7_Witness ==
    \E rid \in DOMAIN runs :
        /\ runs[rid].phase = "ended"
        /\ \E e \in runs[rid].events :
                /\ e[3] = "err"
                /\ e[1] < Len(runs[rid].steps)
                /\ runs[rid].steps[e[1] + 1] # <<>>

\* C8: when an execute() call ends, the Simulation's status is Completed if
\* every unit of every step finished with a result and Failed otherwise (never
\* Pending or Running), and a Failed run has stored an error.
C8_FinalStatus ==
    [][\A rid \in RunIds :
            EndsNow(rid) =>
                LET run == runs'[rid]
                    sim == simulations'[run.sim]
                IN  /\ sim.status = IF AllOk(run) THEN COMPLETED ELSE FAILED
                    /\ sim.status = FAILED => sim.error.set /\ sim.error = run.error]_vars

\* a run has failed and one has completed, each leaving its status behind
C8_Witness ==
    /\ \E rid \in DOMAIN runs :
            /\ runs[rid].outcome = FAILED
            /\ simulations[runs[rid].sim].status = FAILED
            /\ simulations[runs[rid].sim].error.set
    /\ \E rid \in DOMAIN runs :
            /\ runs[rid].outcome = COMPLETED
            /\ simulations[runs[rid].sim].status = COMPLETED

\* the ids of the steps before step i
EarlierIds(steps, i) == UNION {Range(steps[j]) : j \in 1..(i - 1)}

\* C2: a unit with no explicit Simulation input that runs in a step after the
\* first receives exactly the outputs of all ids of the strictly earlier steps:
\* no id is missing and no id of its own step is among them.
C2_InputFromEarlierSteps ==
    \A rid \in DOMAIN runs :
        LET run == runs[rid]
        IN  \A k \in DOMAIN run.units :
                LET unit == run.units[k]
                    earlier == EarlierIds(run.steps, run.step)
                IN  (/\ run.step > 1
                     /\ unit.st # "new"
                     /\ unit.input.kind # "simulation")
                    => /\ unit.input.kind = "results"
                       /\ DOMAIN unit.input.value = earlier
                       /\ \A id \in earlier \ Range(run.steps[run.step]) :
                                unit.input.value[id] = run.results[id]

\* C3: when execute() ends because unit B failed while unit A of the same step
\* succeeded, the Simulation is Failed, its error names B, and A's output is in
\* the Simulation's result mapping.
C3_PartialFailure ==
    [][\A rid \in RunIds :
            EndsNow(rid) =>
                LET run == runs'[rid]
                    sim == simulations'[run.sim]
                IN  \A a \in DOMAIN run.steps[run.step], b \in DOMAIN run.steps[run.step] :
                        (/\ <<run.step, a, "ok">> \in run.events
                         /\ <<run.step, b, "err">> \in run.events)
                        => /\ sim.status = FAILED
                           /\ sim.error.set
                           /\ sim.error.exec_id = run.steps[run.step][b]
                           /\ run.steps[run.step][a] \in DOMAIN sim.results
                           /\ sim.results[run.steps[run.step][a]]
                                = run.results[run.steps[run.step][a]]]_vars

\* the ids that occur in the steps, and how often a run started each
Occurrences(steps, id) ==
    Cardinality({u \in UNION {{<<i, k>> : k \in DOMAIN steps[i]} : i \in DOMAIN steps} :
                    steps[u[1]][u[2]] = id})

StartCount(run, id) ==
    Cardinality({u \in Started(run) : run.steps[u[1]][u[2]] = id})

\* C9 as stated: a successful execute() stores on the Simulation the mapping it
\* returns, whose keys are exactly the ids of the steps it ran, and every unit
\* has been run exactly once.
C9_Original ==
    [][\A rid \in RunIds :
            (EndsNow(rid) /\ runs'[rid].outcome = COMPLETED) =>
                LET run == runs'[rid]
                IN  /\ simulations'[run.sim].results = run.results
                    /\ DOMAIN run.results = StepIds(run.steps)
                    /\ \A id \in DOMAIN run.results : StartCount(run, id) = 1]_vars

\* C9: a successful execute() stores on the Simulation the mapping it returns,
\* whose keys are exactly the ids of the steps the run iterated (the
\* Blueprint's steps when the run began), one entry per id, and every unit has
\* been run once for each occurrence of its id in those steps.
C9_ResultKeys ==
    [][\A rid \in RunIds :
            (EndsNow(rid) /\ runs'[rid].outcome = COMPLETED) =>
                LET run == runs'[rid]
                IN  /\ simulations'[run.sim].results = run.results
                    /\ DOMAIN run.results = StepIds(run.steps)
                    /\ \A id \in DOMAIN run.results :
                            StartCount(run, id) = Occurrences(run.steps, id)]_vars

\* a run over steps that name an id twice has completed and its results are
\* on the Simulation
C9_Witness ==
    \E rid \in DOMAIN runs :
        /\ runs[rid].outcome = COMPLETED
        /\ \E id \in StepIds(runs[rid].steps) : Occurrences(runs[rid].steps, id) = 2
        /\ simulations[runs[rid].sim].results = runs[rid].results
        /\ runs[rid].results # EmptyMap

\* C10: when the re-run of a Completed or Failed Simulation ends, only that
\* attempt is visible: the status is its status, the error is its error (none
\* when it succeeded) and the result mapping holds its outputs only.
C10_RerunOverwrites ==
    [][\A rid \in RunIds :
            (EndsNow(rid) /\ runs'[rid].prev_status \in {COMPLETED, FAILED}) =>
                LET run == runs'[rid]
                    sim == simulations'[run.sim]
                IN  /\ sim.status = run.outcome
                    /\ sim.error = run.error
                    /\ \A id \in DOMAIN sim.results :
                            /\ id \in DOMAIN run.results
                            /\ sim.results[id] = run.results[id]]_vars

\* steps of Query nodes only, followed by one step holding one Render node
QueriesThenRender(steps) ==
    /\ Len(steps) >= 2
    /\ Len(steps[Len(steps)]) = 1
    /\ TypeOf(steps[Len(steps)][1]) = "output"
    /\ EarlierIds(steps, Len(steps)) # {}
    /\ \A id \in EarlierIds(steps, Len(steps)) : TypeOf(id) = "sql"

\* the Render node of such steps
RenderOf(steps) == steps[Len(steps)][1]

\* two executions of one such Blueprint, the Render node holding no script at
\* first, have run to completion one after the other on fresh Simulations, and
\* nothing else has been executed
TwoFreshRuns ==
    /\ Len(runs) = 2
    /\ runs[1].outcome = COMPLETED
    /\ runs[2].outcome = COMPLETED
    /\ runs[2].solo
    /\ runs[1].sim # runs[2].sim
    /\ runs[1].prev_status = PENDING
    /\ runs[2].prev_status = PENDING
    /\ runs[1].bp = runs[2].bp
    /\ runs[1].steps = runs[2].steps
    /\ QueriesThenRender(runs[1].steps)
    /\ runs[1].cache0[RenderOf(runs[1].steps)] = None

\* C4: the generator is invoked once in the first of the two runs and never in
\* the second, and the Render output text is the same in both.
C4_CacheHit ==
    TwoFreshRuns =>
        /\ runs[1].gen_calls = 1
        /\ runs[2].gen_calls = 0
        /\ runs[2].results[RenderOf(runs[1].steps)] = runs[1].results[RenderOf(runs[1].steps)]

\* a Generative node is named in a step before step i
GenerativeBefore(steps, i) == \E id \in EarlierIds(steps, i) : TypeOf(id) = "llm"

\* C5: with a Generative node in a step before the Render node's step, every
\* run that runs the Render node invokes the script generator for it, also
\* when the node holds a script cached by an earlier deterministic run.
C5_CacheInvalidation ==
    \A rid \in DOMAIN runs :
        LET run == runs[rid]
        IN  \A k \in DOMAIN run.units :
                (/\ TypeOf(run.units[k].id) = "output"
                 /\ run.units[k].st # "new"
                 /\ GenerativeBefore(run.steps, run.step))
                => /\ run.units[k].gen
                   /\ run.gen_calls >= 1

\* the Render node held a script when such a run began, and the run invoked
\* the generator
C5_Witness ==
    \E rid \in DOMAIN runs :
        \E k \in DOMAIN runs[rid].units :
            /\ TypeOf(runs[rid].units[k].id) = "output"
            /\ GenerativeBefore(runs[rid].steps, runs[rid].step)
            /\ Truthy(runs[rid].cache0[runs[rid].units[k].id])
            /\ Truthy(blueprints[runs[rid].bp].executables[runs[rid].units[k].id].cached_script)
            /\ runs[rid].units[k].gen

\* the Render unit k of run rid gets its script from the generator in this step
GeneratorReturns(rid, k) ==
    /\ Suspended(rid, k, "wait_gen")
    /\ runs'[rid].units[k].st = "wait_out"

\* the cached-script field of the Render node of unit k of run rid
CachedScript(bps, rid, k) ==
    bps[runs[rid].bp].executables[runs[rid].units[k].id].cached_script

\* C6 as stated: a generated script is put on the node only if no Generative
\* executable has completed in the run at the moment of persisting.
C6_Original ==
    [][\A rid \in DOMAIN runs : \A k \in DOMAIN runs[rid].units :
            (GeneratorReturns(rid, k) /\ runs'[rid].units[k].persisted)
            => check_if_inputs_deterministic(runs[rid].results,
                                             blueprints[runs[rid].bp].executables)]_vars

\* C6: a generated script is put on the node if and only if the run was
\* deterministic when the Render unit started (no Generative executable had
\* completed then); that is decided once, before the generator is called.
\* When the run was not deterministic then, the script is used once and the
\* node's cached-script field is left unchanged.
C6_PersistOnlyDeterministic ==
    [][\A rid \in DOMAIN runs :
        /\ (runs[rid].phase = "launched" /\ runs'[rid].phase = "started") =>
                \A k \in DOMAIN runs'[rid].units :
                    TypeOf(runs'[rid].units[k].id) = "output" =>
                        runs'[rid].units[k].det =
                            check_if_inputs_deterministic(runs[rid].results,
                                            blueprints[runs[rid].bp].executables)
        /\ \A k \in DOMAIN runs[rid].units :
                GeneratorReturns(rid, k) =>
                    /\ runs'[rid].units[k].det = runs[rid].units[k].det
                    /\ IF runs[rid].units[k].det
                       THEN CachedScript(blueprints', rid, k) = runs'[rid].units[k].script
                       ELSE /\ CachedScript(blueprints', rid, k) = CachedScript(blueprints, rid, k)
                            /\ executables' = executables]_vars

\* a script has been put on the node in a run in which a Generative executable
\* had completed, and another script has been used without being kept
C6_Witness ==
    /\ \E rid \in DOMAIN runs : \E k \in DOMAIN runs[rid].units :
            /\ runs[rid].units[k].persisted
            /\ \E id \in DOMAIN runs[rid].results : TypeOf(id) = "llm"
    /\ \E rid \in DOMAIN runs : \E k \in DOMAIN runs[rid].units :
            /\ runs[rid].units[k].st = "wait_out"
            /\ runs[rid].units[k].gen
            /\ ~runs[rid].units[k].det
            /\ runs[rid].units[k].script
                    # blueprints[runs[rid].bp].executables[runs[rid].units[k].id].cached_script

\* the Render ids named by a list of steps
RenderIds(steps) == {id \in StepIds(steps) : TypeOf(id) = "output"}

\* a Simulation of a Blueprint without Generative node has been executed to
\* completion, the run has put a script on the Render node, and the same
\* Simulation has then been executed again, over the same steps, to completion
RerunOfCompleted ==
    /\ Len(runs) = 2
    /\ runs[1].sim = runs[2].sim
    /\ runs[1].outcome = COMPLETED
    /\ runs[2].outcome = COMPLETED
    /\ runs[2].solo
    /\ runs[2].prev_status = COMPLETED
    /\ runs[1].steps = runs[2].steps
    /\ RenderIds(runs[1].steps) # {}
    /\ \A id \in StepIds(runs[1].steps) : TypeOf(id) # "llm"
    /\ \A id \in RenderIds(runs[1].steps) :
            /\ runs[1].cache0[id] = None
            /\ runs[2].cache0[id] = runs[1].results[id]

\* C11: executing a Completed deterministic Simulation again gives a result
\* mapping with the key set of the first run and the Render output text of the
\* first run.
C11_IdempotentRerun ==
    RerunOfCompleted =>
        /\ DOMAIN runs[2].results = DOMAIN runs[1].results
        /\ DOMAIN simulations[runs[2].sim].results = DOMAIN runs[1].results
        /\ \A id \in RenderIds(runs[1].steps) :
                /\ runs[2].results[id] = runs[1].results[id]
                /\ simulations[runs[2].sim].results[id] = runs[1].results[id]

\* this step leaves the Blueprints as they are and answers with an error that
\* names one of the ids of the steps that are not among the known ids
RejectsNamingUnknown(steps, known) ==
    /\ blueprints' = blueprints
    /\ response'.status # Ok.status
    /\ response'.exec_id \in UnknownStepIds(steps, known)

\* the create requests whose steps name an id that is not among the listed
\* executable ids
RequestsNamingUnknown ==
    {request \in BlueprintRequests :
        UnknownStepIds(request.steps, Range(request.executable_ids)) # {}}

\* C12 as stated: a create or update request whose steps name an id that is
\* not among the Blueprint's executables is rejected, and the rejection names
\* such an id.
C12_Original ==
    [][/\ \A request \in RequestsNamingUnknown :
            CreateBlueprint(request)
            => RejectsNamingUnknown(request.steps, Range(request.executable_ids))
       /\ \A bid \in BlueprintIds, steps \in UpdateRequests :
            (/\ UpdateSteps(bid, steps)
             /\ UnknownStepIds(steps, DOMAIN blueprints[bid].executables) # {})
            => RejectsNamingUnknown(steps, DOMAIN blueprints[bid].executables)]_vars

\* C12: a create or update request whose steps name an id that is not among
\* the Blueprint's executables is rejected.  The rejection names such an id,
\* except for a create request that lists an executable id the Store does not
\* hold: that request is rejected as "not found", naming the listed id.
C12_UnknownIdRejected ==
    [][/\ \A request \in RequestsNamingUnknown :
            CreateBlueprint(request)
            => IF Range(request.executable_ids) \subseteq DOMAIN executables
               THEN /\ RejectsNamingUnknown(request.steps, Range(request.executable_ids))
                    /\ response'.status = "400"
               ELSE /\ blueprints' = blueprints
                    /\ response'.status = "404"
                    /\ response'.exec_id \in Range(request.executable_ids) \ DOMAIN executables
       /\ \A bid \in BlueprintIds, steps \in UpdateRequests :
            (/\ UpdateSteps(bid, steps)
             /\ UnknownStepIds(steps, DOMAIN blueprints[bid].executables) # {})
            => /\ RejectsNamingUnknown(steps, DOMAIN blueprints[bid].executables)
               /\ response'.status = "400"]_vars

\* an update request has just been rejected for the unknown id it names, and
\* the Blueprint has the steps it was created with
C12_Witness ==
    /\ blueprints # <<>>
    /\ response.status = "400"
    /\ response.exec_id \notin DOMAIN blueprints[1].executables
    /\ \E request \in BlueprintRequests : blueprints[1].steps = request.steps

\* C13: every id named by a step of a Blueprint of the Store is a key of the
\* Blueprint's executables mapping.
C13_StepIdsKnown ==
    \A bid \in DOMAIN blueprints :
        StepIds(blueprints[bid].steps) \subseteq DOMAIN blueprints[bid].executables

\* a Blueprint has been created, its steps have been replaced, it has been
\* executed to the end, and a later update request has been rejected
C13_Witness ==
    /\ blueprints # <<>>
    /\ blueprints[1].steps \in UpdateRequests
    /\ \E rid \in DOMAIN runs :
            /\ runs[rid].phase = "ended"
            /\ runs[rid].steps = blueprints[1].steps
    /\ response.status = "400"

\* unit k of the run is suspended in its executor call
Waiting(run, k) == run.units[k].st \in {"wait_llm", "wait_gen", "wait_out"}

\* C14: the units of a step run concurrently: once the tasks of a step have
\* run their first segments every unit of the step has been started, none has
\* waited for another to finish, and all the units suspended in their executor
\* calls are in flight together.
C14_UnitsConcurrent ==
    \A rid \in DOMAIN runs :
        LET run == runs[rid]
        IN  run.phase = "started" =>
                \A k \in DOMAIN run.units :
                    /\ <<run.step, k>> \in Started(run)
                    /\ Waiting(run, k) => <<run.step, k>> \in InFlight(run)

\* two units of one step are in flight at the same time, both suspended in
\* their executor calls
C14_Witness ==
    \E rid \in DOMAIN runs :
        \E a \in DOMAIN runs[rid].units, b \in DOMAIN runs[rid].units :
            /\ a # b
            /\ Waiting(runs[rid], a)
            /\ Waiting(runs[rid], b)
            /\ {<<runs[rid].step, a>>, <<runs[rid].step, b>>} \subseteq InFlight(runs[rid])

\* C15: a unit for whose id the Simulation holds a recorded input receives
\* exactly that value as its input when it starts, whatever the run has
\* accumulated; the result mapping is not merged into it.
C15_RecordedInputVerbatim ==
    [][\A rid \in DOMAIN runs :
            (runs[rid].phase = "launched" /\ runs'[rid].phase = "started") =>
                \A k \in DOMAIN runs'[rid].units :
                    LET unit == runs'[rid].units[k]
                        inputs == simulations[runs[rid].sim].inputs
                    IN  unit.id \in DOMAIN inputs =>
                            /\ unit.input.kind = "simulation"
                            /\ unit.input.value = inputs[unit.id]
                            /\ unit.input.value \in InputValues]_vars

\* a unit of a later step has started with the recorded input while the run
\* had accumulated results
C15_Witness ==
    \E rid \in DOMAIN runs :
        \E k \in DOMAIN runs[rid].units :
            /\ runs[rid].step > 1
            /\ runs[rid].results # EmptyMap
            /\ runs[rid].units[k].st # "new"
            /\ runs[rid].units[k].id \in DOMAIN simulations[runs[rid].sim].inputs
            /\ runs[rid].units[k].input.kind = "simulation"

\* unit k of run rid puts its generated script on node id of Blueprint bid in
\* this step
Writes(rid, k, bid, id) ==
    /\ runs[rid].bp = bid
    /\ runs[rid].units[k].id = id
    /\ GeneratorReturns(rid, k)
    /\ runs'[rid].units[k].persisted

\* C16: the cached-script field of a Render node is written atomically: a
\* step leaves it as it was or replaces it by the one complete script that one
\* generator call returned to the one unit writing in that step, so the field
\* is always absent, the old script or the script of the last writer.
C16_CachedScriptAtomic ==
    [][\A bid \in DOMAIN blueprints : \A id \in RenderIds(blueprints[bid].steps) :
            LET old == blueprints[bid].executables[id].cached_script
                new == blueprints'[bid].executables[id].cached_script
            IN  /\ new \in Scripts \cup {None}
                /\ new # old =>
                        \E rid \in DOMAIN runs : \E k \in DOMAIN runs[rid].units :
                            Writes(rid, k, bid, id)
                /\ \A rid \in DOMAIN runs : \A k \in DOMAIN runs[rid].units :
                        Writes(rid, k, bid, id) =>
                            /\ new = runs'[rid].units[k].script
                            /\ new \in Scripts
                            /\ executables'[id].cached_script = new
                            /\ \A q \in DOMAIN runs : \A j \in DOMAIN runs[q].units :
                                    Writes(q, j, bid, id) => (q = rid /\ j = k)]_vars

\* two runs on different Simulations of one Blueprint, in flight together,
\* have both written the field with different scripts, and the field holds
\* one of the two
C16_Witness ==
    /\ Len(runs) = 2
    /\ runs[1].sim # runs[2].sim
    /\ runs[1].bp = runs[2].bp
    /\ \E a \in DOMAIN runs[1].units, b \in DOMAIN runs[2].units :
            /\ runs[1].units[a].id = runs[2].units[b].id
            /\ runs[1].units[a].persisted
            /\ runs[2].units[b].persisted
            /\ Truthy(runs[1].units[a].script)
            /\ Truthy(runs[2].units[b].script)
            /\ runs[1].units[a].script # runs[2].units[b].script
            /\ blueprints[runs[1].bp].executables[runs[1].units[a].id].cached_script
                    \in {runs[1].units[a].script, runs[2].units[b].script}

\* execute() of run rid raises in this step
FailsNow(rid) ==
    /\ rid \in DOMAIN runs
    /\ EndsNow(rid)
    /\ runs'[rid].outcome = FAILED

\* C17 as stated: the failure execute() raises for a failed unit, and the
\* error stored on the Simulation, carry the unit's id, the declared type of
\* its executable and the failure of the collaborator.
C17_Original ==
    [][\A rid \in DOMAIN runs :
            FailsNow(rid) =>
                LET err == runs'[rid].error
                IN  /\ simulations'[runs[rid].sim].error = err
                    /\ \E k \in DOMAIN runs[rid].units :
                            /\ runs[rid].units[k].st = "err"
                            /\ err.exec_id = runs[rid].units[k].id
                            /\ err.cause = runs[rid].units[k].cause
                            /\ "type" \in DOMAIN err
                            /\ err.type = TypeOf(runs[rid].units[k].id)]_vars

\* C17: the failure execute() raises for a failed unit, and the error stored
\* on the Simulation, carry the unit's id and the failure of the collaborator,
\* and nothing else: the declared type of the executable is not in them.
C17_ErrorContent ==
    [][\A rid \in DOMAIN runs :
            FailsNow(rid) =>
                LET err == runs'[rid].error
                IN  /\ simulations'[runs[rid].sim].error = err
                    /\ DOMAIN err = {"set", "exec_id", "cause"}
                    /\ \E k \in DOMAIN runs[rid].units :
                            /\ runs[rid].units[k].st = "err"
                            /\ err.exec_id = runs[rid].units[k].id
                            /\ err.cause = runs[rid].units[k].cause
                            /\ err.cause # None]_vars

\* a run has failed in the script generator and the Simulation shows the
\* error of the run
C17_Witness ==
    \E rid \in DOMAIN runs :
        /\ runs[rid].outcome = FAILED
        /\ runs[rid].error.cause = "generator error"
        /\ TypeOf(runs[rid].error.exec_id) = "output"
        /\ simulations[runs[rid].sim].error = runs[rid].error

\* the executable behind position k of step i of a run is of none of the four
\* variants
ForeignAt(run, i, k) ==
    blueprints[run.bp].executables[run.steps[i][k]].type \notin ExecutableType

\* C18: a unit whose executable is of none of the four variants is not
\* skipped: it is started with its step, ends at once in the fatal error
\* "unknown executable type", leaves no result entry, and the run fails.
C18_ClosedDispatch ==
    \A rid \in DOMAIN runs :
        LET run == runs[rid]
        IN  /\ \A i \in DOMAIN run.steps : \A k \in DOMAIN run.steps[i] :
                    ForeignAt(run, i, k) =>
                        /\ run.steps[i][k] \notin DOMAIN run.results
                        /\ <<i, k, "ok">> \notin run.events
                        /\ <<i, k, "start">> \in run.events => <<i, k, "err">> \in run.events
                        /\ (run.step = i /\ run.phase = "started") =>
                                /\ run.units[k].st = "err"
                                /\ run.units[k].cause = "Unknown executable type"
                        /\ run.outcome # COMPLETED
                        /\ (run.phase = "ended" /\ <<i, k, "start">> \in run.events) =>
                                /\ run.outcome = FAILED
                                /\ (\A q \in DOMAIN runs : q > rid => runs[q].sim # run.sim)
                                        => simulations[run.sim].status = FAILED

\* a run has failed on the executable of unknown type while other units of the
\* step ended with a result
C18_Witness ==
    \E rid \in DOMAIN runs :
        /\ runs[rid].outcome = FAILED
        /\ runs[rid].error = ErrorOf("x", "Unknown executable type")
        /\ simulations[runs[rid].sim].error = runs[rid].error
        /\ runs[rid].results # EmptyMap

\* a Generative executable has completed in the run
NonDeterministic(run) == \E id \in DOMAIN run.results : TypeOf(id) = "llm"

\* C19: when a Render unit starts, the script generator is invoked if and only
\* if the node has no cached script or the run is non-deterministic; with a
\* cached script and a deterministic run the generator is not called and the
\* cached script is the one handed to the script executor.
C19_GeneratorIffNoCacheOrNonDet ==
    [][\A rid \in DOMAIN runs :
            (runs[rid].phase = "launched" /\ runs'[rid].phase = "started") =>
                \A k \in DOMAIN runs'[rid].units :
                    LET unit == runs'[rid].units[k]
                        cached == blueprints[runs[rid].bp].executables[unit.id].cached_script
                    IN  TypeOf(unit.id) = "output" =>
                            /\ unit.gen <=> (cached = None \/ NonDeterministic(runs[rid]))
                            /\ unit.gen => unit.st = "wait_gen"
                            /\ ~unit.gen => /\ unit.st = "wait_out"
                                            /\ unit.script = cached
                                            /\ runs'[rid].gen_calls = runs[rid].gen_calls]_vars

\* C20: on a cache miss in a deterministic run the Render unit obtains the
\* script, has the script executor execute it, and persists it afterwards: a
\* unit has put its script on the node only when the script executor has
\* executed that script.
C20_PersistAfterExecute ==
    \A rid \in DOMAIN runs : \A k \in DOMAIN runs[rid].units :
        LET unit == runs[rid].units[k]
        IN  (unit.gen /\ unit.det /\ unit.persisted) => unit.st = "ok"

\* the flag of engine.py 148 as it would be computed in the present state of a run
Deterministic(run, bps) ==
    check_if_inputs_deterministic(run.results, bps[run.bp].executables)

\* a Generative unit of the run has completed
GenerativeDone(run) ==
    \E e \in run.events : e[3] = "ok" /\ TypeOf(run.steps[e[1]][e[2]]) = "llm"

\* C21: the deterministic-so-far flag is true when a run begins, whatever earlier
\* runs did; it is false exactly when a Generative unit has completed in the run;
\* and once false it stays false for the rest of the run
C21_DeterministicFlag ==
    [][\A rid \in DOMAIN runs' :
          /\ rid \notin DOMAIN runs => Deterministic(runs'[rid], blueprints')
          /\ Deterministic(runs'[rid], blueprints') <=> ~GenerativeDone(runs'[rid])
          /\ (rid \in DOMAIN runs /\ ~Deterministic(runs[rid], blueprints))
                => ~Deterministic(runs'[rid], blueprints')]_vars

C21_Witness ==
    \E rid \in DOMAIN runs : \E q \in 1..(rid - 1) :
        /\ runs[q].sim = runs[rid].sim
        /\ GenerativeDone(runs[q])
        /\ ~Deterministic(runs[q], blueprints)
        /\ Started(runs[rid]) # {}
        /\ Deterministic(runs[rid], blueprints)


\* the units of run rid that had completed when the unit of event e gathered its
\* input in this step: those of earlier segments, and the siblings before it in
\* the list that ran to their end without suspending
CompletedAtGather(rid, e) ==
    {f \in runs[rid].events : f[3] = "ok"}
        \cup {f \in runs'[rid].events : f[3] = "ok" /\ f[1] = e[1] /\ f[2] < e[2]}

\* C22: a unit without a recorded Simulation input gets no input exactly when no
\* unit of this run had completed when its input was gathered; results of earlier
\* runs play no part
C22_AbsentInputIffNothingCompleted ==
    [][\A rid \in DOMAIN runs \cap DOMAIN runs' :
          \A e \in runs'[rid].events \ runs[rid].events :
              (/\ e[3] = "start"
               /\ runs'[rid].steps[e[1]][e[2]] \notin DOMAIN simulations[runs[rid].sim].inputs)
                => (runs'[rid].units[e[2]].input.kind = "none"
                        <=> CompletedAtGather(rid, e) = {})]_vars

C22_Witness ==
    \E rid \in DOMAIN runs :
        /\ runs[rid].prev_status = COMPLETED
        /\ \E q \in 1..(rid - 1) : runs[q].sim = runs[rid].sim /\ runs[q].results # EmptyMap
        /\ runs[rid].step = 1
        /\ Len(runs[rid].units) >= 2
        /\ runs[rid].units[1].st # "new"
        /\ runs[rid].units[1].input.kind = "none"
        /\ runs[rid].units[2].input.kind = "results"


\* C23: while a run is in progress, the output of every unit of it that has
\* completed is present in the result mapping of the Simulation
C23_ResultsIncremental ==
    \A rid \in DOMAIN runs :
        runs[rid].phase # "ended"
            => \A id \in DOMAIN runs[rid].results :
                  /\ id \in DOMAIN simulations[runs[rid].sim].results
                  /\ simulations[runs[rid].sim].results[id] = runs[rid].results[id]


\* the unit tasks of a run that have written their result, those that write it
\* in this step, and the key a task writes
Writers(run) == {e \in run.events : e[3] = "ok"}

WritesNow(rid) == Writers(runs'[rid]) \ Writers(runs[rid])

KeyOf(run, e) == run.steps[e[1]][e[2]]

\* an entry of the run's result mapping is new or has another value after this step
Touched(rid, id) ==
    /\ id \in DOMAIN runs'[rid].results
    /\ id \in DOMAIN runs[rid].results => runs'[rid].results[id] # runs[rid].results[id]

\* C24 as stated: within a run each key of the result mapping is written only by
\* the unit task whose id it is, no two tasks of the run write the same key, and
\* an entry once written is never removed or replaced during that run
C24_Original ==
    [][\A rid \in DOMAIN runs \cap DOMAIN runs' :
          /\ \A id \in DOMAIN runs'[rid].results :
                Touched(rid, id) => \E e \in WritesNow(rid) : KeyOf(runs'[rid], e) = id
          /\ \A e, f \in Writers(runs'[rid]) :
                e # f => KeyOf(runs'[rid], e) # KeyOf(runs'[rid], f)
          /\ \A id \in DOMAIN runs[rid].results :
                /\ id \in DOMAIN runs'[rid].results
                /\ runs'[rid].results[id] = runs[rid].results[id]]_vars

\* C24: within a run each key of the result mapping is written only by unit
\* tasks whose id it is and an entry once written is never removed; a key whose
\* id occurs once in the run's steps is written by one task only and its entry
\* is never replaced, while an id that occurs several times is written by each
\* of its unit tasks
C24_AppendOnly ==
    [][\A rid \in DOMAIN runs \cap DOMAIN runs' :
          /\ \A id \in DOMAIN runs'[rid].results :
                Touched(rid, id) => \E e \in WritesNow(rid) : KeyOf(runs'[rid], e) = id
          /\ \A id \in DOMAIN runs[rid].results : id \in DOMAIN runs'[rid].results
          /\ \A e \in WritesNow(rid) :
                LET id == KeyOf(runs'[rid], e)
                IN  /\ Cardinality({f \in Writers(runs'[rid]) : KeyOf(runs'[rid], f) = id})
                          <= Occurrences(runs'[rid].steps, id)
                    /\ Occurrences(runs'[rid].steps, id) = 1
                          => id \notin DOMAIN runs[rid].results]_vars

\* a run in progress holds entries of two tasks, and a run over steps that name
\* an id twice holds the entry both of its tasks wrote
C24_Witness ==
    /\ \E rid \in DOMAIN runs :
          /\ runs[rid].phase # "ended"
          /\ \A id \in StepIds(runs[rid].steps) : Occurrences(runs[rid].steps, id) = 1
          /\ Cardinality(Writers(runs[rid])) >= 2
    /\ \E rid \in DOMAIN runs : \E e, f \in Writers(runs[rid]) :
          e # f /\ KeyOf(runs[rid], e) = KeyOf(runs[rid], f)


\* this step is a create-blueprint or update-steps request that is rejected
RejectedNow ==
    \/ \E request \in BlueprintRequests :
            CreateBlueprint(request) /\ validate_create(request, executables) # Ok
    \/ \E bid \in DOMAIN blueprints, steps \in UpdateRequests :
            /\ UpdateSteps(bid, steps)
            /\ validate_steps(steps, DOMAIN blueprints[bid].executables) # Ok

\* C25: a rejected create-blueprint stores no Blueprint, a rejected update-steps
\* leaves the steps of the stored Blueprint as they were, and neither changes a
\* Simulation (its status and error included) or a run
C25_RejectionChangesNothing ==
    [][RejectedNow =>
          /\ blueprints' = blueprints
          /\ simulations' = simulations
          /\ executables' = executables
          /\ runs' = runs
          /\ response'.status \in {"400", "404"}]_vars

\* a create-blueprint request was rejected while a Simulation was running
C25_Witness ==
    /\ blueprints # <<>>
    /\ response.status = "404"
    /\ "exec_id" \in DOMAIN response
    /\ \E sid \in DOMAIN simulations : simulations[sid].status = RUNNING


\* this step is an execute request for a Simulation the Store does not hold or
\* whose Blueprint it does not hold, or a create-simulation request for a
\* Blueprint it does not hold
NotFoundNow ==
    \/ \E sid \in SimIds :
            /\ ExecuteSimulation(sid)
            /\ \/ sid \notin DOMAIN simulations
               \/ simulations[sid].blueprint_id \notin DOMAIN blueprints
    \/ \E bid \in BlueprintIds \cup UnknownBlueprintIds :
            CreateSimulation(bid) /\ bid \notin DOMAIN blueprints

\* C26: such a request ends with NotFound, starts no unit and leaves the Store
\* as it was: no Simulation is added and none becomes Running or Failed
C26_NotFoundChangesNothing ==
    [][NotFoundNow =>
          /\ response' \in {SimulationNotFound, BlueprintNotFound}
          /\ runs' = runs
          /\ simulations' = simulations
          /\ blueprints' = blueprints
          /\ executables' = executables]_vars

\* an execute request named an absent Simulation while a run of another
\* Simulation had units in flight
C26_Witness ==
    /\ response = SimulationNotFound
    /\ \E rid \in DOMAIN runs :
            /\ InFlight(runs[rid]) # {}
            /\ simulations[runs[rid].sim].status = RUNNING


\* this step is a generate-input or a refine-input request
InputRequestNow ==
    \E sid \in GenerateInputSims, exec_id \in GenerateInputIds :
        \/ \E v \in InputValues : GenerateInput(sid, exec_id, v)
        \/ \E message \in RefineMessages, updated \in InputValues \cup {None},
              raises \in BOOLEAN : RefineInput(sid, exec_id, message, updated, raises)

\* this step belongs to an execute() call on Simulation sid
ExecuteStepOf(sid) ==
    \E rid \in DOMAIN runs' :
        /\ runs'[rid].sim = sid
        /\ rid \in DOMAIN runs => runs'[rid] # runs[rid]

\* two executables differ at most in the cached script of a Render node
SameButCachedScript(old, new) ==
    /\ [new EXCEPT !.cached_script = old.cached_script] = old
    /\ new # old => old.type = "output"

\* C27: status, results and error of a Simulation change only in steps of an
\* execute() call on it; generate-input and refine-input change nothing but
\* inputs and chat history; and a step of execute() changes no inputs, no chat
\* history, no steps and no set of executables, only cached scripts of Render
\* nodes
C27_MutationOwnership ==
    [][/\ \A sid \in DOMAIN simulations :
            (\/ simulations'[sid].status # simulations[sid].status
             \/ simulations'[sid].results # simulations[sid].results
             \/ simulations'[sid].error # simulations[sid].error)
                => ExecuteStepOf(sid)
       /\ InputRequestNow =>
            /\ DOMAIN simulations' = DOMAIN simulations
            /\ \A sid \in DOMAIN simulations :
                    [simulations'[sid] EXCEPT !.inputs = simulations[sid].inputs,
                                              !.chat_history = simulations[sid].chat_history]
                        = simulations[sid]
            /\ UNCHANGED <<executables, blueprints, runs>>
       /\ runs' # runs =>
            /\ DOMAIN simulations' = DOMAIN simulations
            /\ \A sid \in DOMAIN simulations :
                    /\ simulations'[sid].inputs = simulations[sid].inputs
                    /\ simulations'[sid].chat_history = simulations[sid].chat_history
                    /\ simulations'[sid].blueprint_id = simulations[sid].blueprint_id
            /\ DOMAIN blueprints' = DOMAIN blueprints
            /\ \A bid \in DOMAIN blueprints :
                    /\ blueprints'[bid].steps = blueprints[bid].steps
                    /\ DOMAIN blueprints'[bid].executables = DOMAIN blueprints[bid].executables
                    /\ \A id \in DOMAIN blueprints[bid].executables :
                            SameButCachedScript(blueprints[bid].executables[id],
                                                blueprints'[bid].executables[id])
            /\ DOMAIN executables' = DOMAIN executables
            /\ \A id \in DOMAIN executables :
                    SameButCachedScript(executables[id], executables'[id])]_vars

\* a Simulation with a generated input has completed a run that stored a
\* script on the Render node, and a refine-input request on it has failed
C27_Witness ==
    /\ response = ServerError
    /\ \E sid \in DOMAIN simulations :
            /\ simulations[sid].inputs # EmptyMap
            /\ simulations[sid].status = COMPLETED
            /\ simulations[sid].results # EmptyMap
            /\ \E id \in DOMAIN simulations[sid].results :
                    /\ TypeOf(id) = "output"
                    /\ blueprints[simulations[sid].blueprint_id].executables[id].cached_script
                            \in Scripts


\* the status changes of the lifecycle
Transitions ==
    {<<PENDING, RUNNING>>, <<RUNNING, COMPLETED>>, <<RUNNING, FAILED>>,
     <<COMPLETED, RUNNING>>, <<FAILED, RUNNING>>}

\* C28: a Simulation is created Pending with empty results and no error; its
\* status changes only along Pending->Running, Running->Completed,
\* Running->Failed and Completed/Failed->Running; and the stored status is
\* Running when the first unit of a run is started
C28_StatusLifecycle ==
    [][/\ \A sid \in DOMAIN simulations' \ DOMAIN simulations :
            /\ simulations'[sid].status = PENDING
            /\ simulations'[sid].results = EmptyMap
            /\ simulations'[sid].error = NoError
       /\ \A sid \in DOMAIN simulations :
            simulations'[sid].status # simulations[sid].status
                => <<simulations[sid].status, simulations'[sid].status>> \in Transitions
       /\ \A rid \in DOMAIN runs \cap DOMAIN runs' :
            (Started(runs[rid]) = {} /\ Started(runs'[rid]) # {})
                => simulations[runs[rid].sim].status = RUNNING]_vars


\* C29: the entry a Query or Script unit records is the value its executor
\* returned for (the executable's content, the input the unit gathered)
C29_ExecutorResultVerbatim ==
    [][\A rid \in DOMAIN runs \cap DOMAIN runs' : \A e \in WritesNow(rid) :
          LET run == runs'[rid]
              id == KeyOf(run, e)
              executable == blueprints[run.bp].executables[id]
              unit == run.units[e[2]]
          IN  /\ executable.type = "sql" =>
                    run.results[id]
                        = execute_sql(executable.content, unit.input, <<rid, e[1], e[2]>>)
              /\ executable.type = "python" =>
                    run.results[id] = execute_python(executable.content, unit.input)]_vars

\* a run holds the entry of a Query unit and that of a Script unit, the latter
\* run on the results gathered before it
C29_Witness ==
    \E rid \in DOMAIN runs :
        /\ "q1" \in DOMAIN runs[rid].results
        /\ runs[rid].results["q1"].rows = ContentOf("q1")
        /\ "p" \in DOMAIN runs[rid].results
        /\ \E k \in DOMAIN runs[rid].units :
                /\ runs[rid].units[k].id = "p"
                /\ runs[rid].units[k].st = "ok"
                /\ runs[rid].units[k].input.kind = "results"

\* C30: the entry a Render unit records is the script text the run used, the
\* cached script when the unit reused it and the generated script otherwise, and
\* not the value executing the script returned
C30_RenderResultIsScript ==
    [][\A rid \in DOMAIN runs \cap DOMAIN runs' :
          /\ \A k \in DOMAIN runs[rid].units \cap DOMAIN runs'[rid].units :
                (/\ runs[rid].units[k].st = "new"
                 /\ runs'[rid].units[k].st = "wait_out")
                    => runs'[rid].units[k].script
                          = blueprints[runs[rid].bp].executables[runs[rid].units[k].id].cached_script
          /\ \A k \in DOMAIN runs[rid].units, script \in Scripts :
                ResumeGenerate(rid, k, script) => runs'[rid].units[k].script = script
          /\ \A e \in WritesNow(rid) :
                LET id == KeyOf(runs'[rid], e)
                    unit == runs[rid].units[e[2]]
                IN  blueprints[runs[rid].bp].executables[id].type = "output" =>
                        /\ runs'[rid].results[id] = unit.script
                        /\ unit.script \in Scripts
                        /\ runs'[rid].results[id] # execute_output(unit.script, unit.input)]_vars

\* a Render unit that reused the cached script has recorded it, in a run after
\* the one whose generated script was recorded and stored
C30_Witness ==
    \E rid \in DOMAIN runs : \E k \in DOMAIN runs[rid].units :
        /\ TypeOf(runs[rid].units[k].id) = "output"
        /\ runs[rid].units[k].st = "ok"
        /\ ~runs[rid].units[k].gen
        /\ runs[rid].results[runs[rid].units[k].id] = runs[rid].cache0[runs[rid].units[k].id]
        /\ \E q \in 1..(rid - 1) : \E id \in DOMAIN runs[q].results :
                TypeOf(id) = "output" /\ runs[q].gen_calls > 0

\* the places of a template that hold the placeholder
Holes(user_prompt_template) ==
    {i \in DOMAIN user_prompt_template : user_prompt_template[i] = Placeholder}

\* the Generative units for which the model call has been made
Prompted(run) == {k \in DOMAIN run.units : run.units[k].messages.set}

\* C31: the user prompt passed for a Generative unit is the template with its
\* single placeholder replaced by the string rendering of the input, and the
\* untouched template when the unit has no input; the system prompt is passed
\* unchanged.
C31_PromptResolved ==
    \A rid \in DOMAIN runs : \A k \in Prompted(runs[rid]) :
        LET run == runs[rid]
            unit == run.units[k]
            content == blueprints[run.bp].executables[unit.id].content
            template == content.user_prompt_template
        IN  /\ unit.messages.system =
                    [i \in DOMAIN content.system_prompt |-> <<"text", content.system_prompt[i]>>]
            /\ unit.input.kind = "none" =>
                    unit.messages.user = [i \in DOMAIN template |-> <<"text", template[i]>>]
            /\ unit.input.kind # "none" /\ Cardinality(Holes(template)) = 1 =>
                    /\ DOMAIN unit.messages.user = DOMAIN template
                    /\ \A i \in DOMAIN template :
                            unit.messages.user[i] =
                                IF i \in Holes(template)
                                THEN IF unit.input.kind = "results"
                                        \/ unit.input.value \in InputValues
                                     THEN <<"json.dumps", unit.input.value>>
                                     ELSE <<"str", unit.input.value>>
                                ELSE <<"text", template[i]>>

\* a Generative unit of one run was called without input and got its
\* one-placeholder template as it is, and one of another run was called with
\* the results so far and got them in the place of the placeholder
C31_Witness ==
    \E r1 \in DOMAIN runs, r2 \in DOMAIN runs :
        \E k1 \in Prompted(runs[r1]), k2 \in Prompted(runs[r2]) :
            LET u1 == runs[r1].units[k1]
                u2 == runs[r2].units[k2]
                template == blueprints[runs[r1].bp].executables["g"].content.user_prompt_template
            IN  /\ Cardinality(Holes(template)) = 1
                /\ u1.input.kind = "none"
                /\ u1.messages.user = [i \in DOMAIN template |-> <<"text", template[i]>>]
                /\ u2.input.kind = "results"
                /\ \E i \in Holes(template) :
                        u2.messages.user[i] = <<"json.dumps", u2.input.value>>

\* C32: when execute() has ended, by success or by failure, no unit of the run
\* is in flight, and every unit that finished with a result, the siblings of
\* a failed unit included, has its id in the engine's result mapping.
C32_NoUnitInFlightAtEnd ==
    \A rid \in DOMAIN runs :
        LET run == runs[rid]
        IN  run.phase = "ended" =>
                /\ InFlight(run) = {}
                /\ \A e \in run.events :
                        e[3] = "ok" => run.steps[e[1]][e[2]] \in DOMAIN run.results

\* a run has ended by the failure of a unit whose sibling, listed after it and
\* suspended in a call, finished with a result that is in the mapping
C32_Witness ==
    \E rid \in DOMAIN runs :
        LET run == runs[rid]
        IN  /\ run.phase = "ended"
            /\ run.outcome = FAILED
            /\ \E e \in run.events, f \in run.events :
                    /\ e[3] = "err"
                    /\ f[3] = "ok"
                    /\ f[1] = e[1]
                    /\ f[2] > e[2]
                    /\ TypeOf(run.steps[f[1]][f[2]]) \in {"llm", "output"}
                    /\ run.steps[f[1]][f[2]] \in DOMAIN run.results

\* C33: when several units of a step have failed, the error execute() raises,
\* which is the error stored on the Simulation, names the failed id that comes
\* first in the step's list, whichever unit failed first.
C33_FirstListedFailureNamed ==
    [][\A rid \in DOMAIN runs :
            FailsNow(rid) =>
                LET units == runs[rid].units
                    err == runs'[rid].error
                IN  \E k \in DOMAIN units :
                        /\ units[k].st = "err"
                        /\ \A j \in 1..(k - 1) : units[j].st # "err"
                        /\ err.exec_id = units[k].id
                        /\ err.cause = units[k].cause
                        /\ simulations'[runs[rid].sim].error = err]_vars

\* a run has ended by the failures of both units of a step, of different
\* causes, and its error names the unit listed first; in another run over the
\* same steps the unit listed second has failed while the one listed first is
\* still waiting for its call to return
C33_Witness ==
    \E r1 \in DOMAIN runs, r2 \in DOMAIN runs :
        /\ runs[r1].phase = "ended"
        /\ runs[r1].steps = runs[r2].steps
        /\ \E e \in runs[r1].events, f \in runs[r1].events :
                /\ e[3] = "err"
                /\ f[3] = "err"
                /\ e[1] = f[1]
                /\ e[2] < f[2]
                /\ runs[r1].steps[e[1]][e[2]] # runs[r1].steps[f[1]][f[2]]
                /\ runs[r1].error.exec_id = runs[r1].steps[e[1]][e[2]]
                /\ runs[r1].error.cause = "LLM execution error"
        /\ runs[r2].phase = "started"
        /\ \E j \in DOMAIN runs[r2].units, k \in DOMAIN runs[r2].units :
                /\ j < k
                /\ runs[r2].units[j].st = "wait_llm"
                /\ runs[r2].units[k].st = "err"

\* C34 as stated: once the cached-script field of a Render node holds a script,
\* no step of any run changes or clears it.
C34_Original ==
    [][\A bid \in DOMAIN blueprints : \A id \in RenderIds(blueprints[bid].steps) :
            LET old == blueprints[bid].executables[id].cached_script
                new == blueprints'[bid].executables[id].cached_script
            IN  old # None => new = old]_vars

\* C34: once the cached-script field of a Render node holds a non-empty
\* script, no Render unit that starts afterwards in a deterministic run
\* changes it: such a unit takes the script of the field and does not call
\* the generator. The field is changed only by a unit of a deterministic run
\* that called the generator, which it does only when it found the field
\* absent or empty at its start, and it is changed to the script that call
\* returned (so a unit already waiting for the generator can still replace a
\* script another run has put there); the field is never set back to absent.
C34_WriteOnceForLaterUnits ==
    [][/\ \A rid \in DOMAIN runs :
            (runs[rid].phase = "launched" /\ runs'[rid].phase = "started") =>
                \A k \in DOMAIN runs'[rid].units :
                    LET unit == runs'[rid].units[k]
                    IN  (/\ TypeOf(unit.id) = "output"
                         /\ unit.det
                         /\ Truthy(CachedScript(blueprints, rid, k))) =>
                            /\ ~unit.gen
                            /\ unit.st = "wait_out"
                            /\ unit.script = CachedScript(blueprints, rid, k)
       /\ \A bid \in DOMAIN blueprints : \A id \in RenderIds(blueprints[bid].steps) :
            LET old == blueprints[bid].executables[id].cached_script
                new == blueprints'[bid].executables[id].cached_script
            IN  new # old =>
                    /\ new # None
                    /\ \E rid \in DOMAIN runs : \E k \in DOMAIN runs[rid].units :
                            /\ Writes(rid, k, bid, id)
                            /\ runs[rid].units[k].det
                            /\ runs[rid].units[k].gen
                            /\ new = runs'[rid].units[k].script]_vars

\* a unit of one run has put its script on the node, and a unit of another
\* run, started on the field holding that script, waits for the rendering of
\* that same script, the field unchanged
C34_Witness ==
    \E r1 \in DOMAIN runs, r2 \in DOMAIN runs :
        \E k1 \in DOMAIN runs[r1].units, k2 \in DOMAIN runs[r2].units :
            LET u1 == runs[r1].units[k1]
                u2 == runs[r2].units[k2]
            IN  /\ r1 # r2
                /\ runs[r1].bp = runs[r2].bp
                /\ u1.id = u2.id
                /\ TypeOf(u1.id) = "output"
                /\ u1.persisted
                /\ u1.script = u2.script
                /\ u2.det /\ ~u2.gen /\ u2.st = "wait_out"
                /\ Truthy(u2.script)
                /\ CachedScript(blueprints, r2, k2) = u2.script

\* C35: get-results returns a result mapping only when the Simulation's status
\* is Completed and rejects the request in every other status; the results of
\* a Simulation are written only when a run of it ends with success, together
\* with the status Completed and as the whole mapping of that run, whose keys
\* are the ids of the steps the run executed; so the mapping returned is that
\* of the latest successful run.
C35_ResultsOnlyWhenCompleted ==
    [][/\ \A sid \in DOMAIN simulations :
            LET sim == simulations[sid]
                after == simulations'[sid]
            IN  /\ (after.results # sim.results
                        \/ (after.status = COMPLETED /\ sim.status # COMPLETED)) =>
                        \E rid \in DOMAIN runs' :
                            /\ EndsNow(rid)
                            /\ runs'[rid].sim = sid
                            /\ runs'[rid].outcome = COMPLETED
                            /\ after.status = COMPLETED
                            /\ after.results = runs'[rid].results
                            /\ DOMAIN after.results = StepIds(runs'[rid].steps)
                /\ \A rid \in DOMAIN runs' :
                        (EndsNow(rid) /\ runs'[rid].sim = sid
                            /\ runs'[rid].outcome = COMPLETED) =>
                                after.results = runs'[rid].results
       /\ (response' # response /\ UNCHANGED <<simulations, runs, blueprints>>) =>
            /\ "body" \in DOMAIN response' =>
                    \E sid \in DOMAIN simulations :
                        /\ simulations[sid].status = COMPLETED
                        /\ response'.body = simulations[sid].results
            /\ "current" \in DOMAIN response' =>
                    \E sid \in DOMAIN simulations :
                        /\ simulations[sid].status # COMPLETED
                        /\ response'.current = simulations[sid].status]_vars

\* the Simulation has been run to completion twice, one run after the other
\* and over different steps, and get-results has returned the mapping of the
\* second run, which has one entry per id of the steps of that run
C35_Witness ==
    /\ Len(runs) = 2
    /\ runs[1].outcome = COMPLETED
    /\ runs[2].outcome = COMPLETED
    /\ runs[2].solo
    /\ runs[1].sim = runs[2].sim
    /\ StepIds(runs[1].steps) # StepIds(runs[2].steps)
    /\ "body" \in DOMAIN response
    /\ response.body = runs[2].results
    /\ response.body = simulations[runs[2].sim].results
    /\ DOMAIN response.body = StepIds(runs[2].steps)
    /\ simulations[runs[2].sim].status = COMPLETED

\* C36: while an execute() call on a Simulation has not ended, the stored
\* status of that Simulation is Running, also when two calls on the same
\* Simulation overlap.
C36_RunningWhileInFlight ==
    \A rid \in DOMAIN runs :
        runs[rid].phase # "ended" => simulations[runs[rid].sim].status = RUNNING

\* C37: provided every executor and generator call returns or raises in the
\* end, every execute() call on a stored Simulation ends in the end, and at
\* its end the Simulation's status is Completed or Failed; a Simulation that
\* is Running does not stay Running forever.
C37_ExecuteEnds ==
    /\ \A rid \in RunIds :
            (rid \in DOMAIN runs)
                ~> (/\ rid \in DOMAIN runs
                    /\ runs[rid].phase = "ended"
                    /\ simulations[runs[rid].sim].status \in {COMPLETED, FAILED})
    /\ \A sid \in SimIds :
            (sid \in DOMAIN simulations /\ simulations[sid].status = RUNNING)
                ~> (/\ sid \in DOMAIN simulations
                    /\ simulations[sid].status \in {COMPLETED, FAILED})

\* two execute() calls on the Simulation, in flight together, have both
\* ended, one by a failure, and the Simulation is Completed or Failed
C37_Witness ==
    /\ Len(runs) = 2
    /\ ~runs[2].solo
    /\ runs[1].phase = "ended"
    /\ runs[2].phase = "ended"
    /\ runs[1].sim = runs[2].sim
    /\ FAILED \in {runs[1].outcome, runs[2].outcome}
    /\ \E rid \in DOMAIN runs : \E e \in runs[rid].events :
            TypeOf(runs[rid].steps[e[1]][e[2]]) \in {"llm", "output"}
    /\ simulations[runs[1].sim].status \in {COMPLETED, FAILED}

\* C38: whether a Render unit reuses the script of its node depends only on
\* the node's cached-script field and on the determinism of the run, not on
\* the unit's input nor on the steps of the run: a unit that starts in a
\* deterministic run on a field that holds a usable script takes that script
\* and does not call the generator, also with an explicit input for its id
\* and after the Blueprint's steps have been replaced; every other unit calls
\* the generator.
C38_ReuseIndependentOfInput ==
    [][\A rid \in DOMAIN runs :
            (runs[rid].phase = "launched" /\ runs'[rid].phase = "started") =>
                \A k \in DOMAIN runs'[rid].units :
                    LET unit == runs'[rid].units[k]
                        cached == CachedScript(blueprints, rid, k)
                        is_deterministic ==
                            \A id \in DOMAIN runs[rid].results : TypeOf(id) # "llm"
                    IN  TypeOf(unit.id) = "output" =>
                            IF cached \in Scripts \ {""} /\ is_deterministic
                            THEN /\ ~unit.gen
                                 /\ unit.st = "wait_out"
                                 /\ unit.script = cached
                                 /\ runs'[rid].gen_calls = runs[rid].gen_calls
                            ELSE /\ unit.gen
                                 /\ unit.st = "wait_gen"]_vars

\* a run of a Simulation without inputs has put a script on the Render node;
\* the steps have been replaced since, and a deterministic run of the other
\* Simulation, which holds an explicit input for the Render id, has taken that
\* script without calling the generator
C38_Witness ==
    /\ Len(runs) = 2
    /\ runs[1].sim # runs[2].sim
    /\ simulations[runs[1].sim].inputs = EmptyMap
    /\ runs[1].outcome = COMPLETED
    /\ runs[1].steps # runs[2].steps
    /\ runs[1].gen_calls = 1
    /\ runs[2].gen_calls = 0
    /\ \E k \in DOMAIN runs[2].units :
            LET unit == runs[2].units[k]
            IN  /\ TypeOf(unit.id) = "output"
                /\ unit.input.kind = "simulation"
                /\ unit.det
                /\ ~unit.gen
                /\ unit.id \in DOMAIN runs[1].results
                /\ unit.script = runs[1].results[unit.id]
                /\ unit.script = CachedScript(blueprints, 2, k)

=========================================================================
